---- MODULE Spec2Model ----
(***************************************************************************)
(* Model of StreamUpload (lib/StreamUpload.js): the two-phase upload of a  *)
(* stream to block blobs.  Phase one pipes the chunked source stream       *)
(* through a through2-concurrent transform that PUTs one block per chunk;  *)
(* phase two commits one block list per blob sequence.                     *)
(*                                                                         *)
(* Strings are modelled as sequences of one-character strings, so that     *)
(* zero padding, base64 encoding and concatenation are computed, not       *)
(* assumed.                                                                *)
(***************************************************************************)
EXTENDS Integers, Sequences, FiniteSets, TLC

(***************************************************************************)
(* Bounds of the model                                                     *)
(***************************************************************************)
\* Largest number of chunks the source stream yields
MaxChunks == 5
\* Largest value of the blocksPerBlob property explored
MaxBlocksPerBlob == 3
\* Largest value of the concurrency property explored
MaxConcurrency == 3

\* Largest number of bytes of a source stream, largest block size, and largest
\* number of bytes the source hands over at once
MaxBytes == 7
MaxBlockSize == 3
MaxPiece == 3

(***************************************************************************)
(* Utils.zeroPad and StreamUpload.generateBlockId                          *)
(***************************************************************************)
DigitChar == <<"0", "1", "2", "3", "4", "5", "6", "7", "8", "9">>

\* Characters of the base64 alphabet, by sextet value (0..63)
Base64Char ==
  <<"A","B","C","D","E","F","G","H","I","J","K","L","M","N","O","P",
    "Q","R","S","T","U","V","W","X","Y","Z","a","b","c","d","e","f",
    "g","h","i","j","k","l","m","n","o","p","q","r","s","t","u","v",
    "w","x","y","z","0","1","2","3","4","5","6","7","8","9","+","/">>

RECURSIVE NumToStr(_)
\* num + '' for a non-negative integer: its decimal digits
NumToStr(num) ==
  IF num < 10 THEN <<DigitChar[num + 1]>>
  ELSE NumToStr(num \div 10) \o <<DigitChar[(num % 10) + 1]>>

RECURSIVE Repeat(_, _)
\* String.prototype.repeat for a count >= 0
Repeat(ch, count) == IF count = 0 THEN <<>> ELSE <<ch>> \o Repeat(ch, count - 1)

\* '0'.repeat(length - str.length) throws a RangeError for a negative count
zeroPadThrows(num, length) == Len(NumToStr(num)) > length

\* Utils.zeroPad(num, length), defined where it does not throw
zeroPad(num, length) ==
  LET str == NumToStr(num)
      pad == Repeat("0", length - Len(str))
  IN  pad \o str

\* UTF-8 byte of a decimal digit character
DigitByte(ch) == CHOOSE b \in 48..57 : DigitChar[b - 47] = ch

Utf8Bytes(str) == [i \in 1..Len(str) |-> DigitByte(str[i])]

RECURSIVE Base64Encode(_)
\* Buffer.toString('base64'): 3 bytes to 4 characters, '=' padding at the end
Base64Encode(bytes) ==
  IF Len(bytes) = 0 THEN <<>>
  ELSE IF Len(bytes) = 1 THEN
    << Base64Char[(bytes[1] \div 4) + 1],
       Base64Char[((bytes[1] % 4) * 16) + 1], "=", "=" >>
  ELSE IF Len(bytes) = 2 THEN
    << Base64Char[(bytes[1] \div 4) + 1],
       Base64Char[((bytes[1] % 4) * 16 + (bytes[2] \div 16)) + 1],
       Base64Char[((bytes[2] % 16) * 4) + 1], "=" >>
  ELSE
    << Base64Char[(bytes[1] \div 4) + 1],
       Base64Char[((bytes[1] % 4) * 16 + (bytes[2] \div 16)) + 1],
       Base64Char[((bytes[2] % 16) * 4 + (bytes[3] \div 64)) + 1],
       Base64Char[(bytes[3] % 64) + 1] >>
    \o Base64Encode(SubSeq(bytes, 4, Len(bytes)))

\* Variant: the number is encoded without its leading zeroes
generateBlockIdUnpadded(blockNum) == Base64Encode(Utf8Bytes(NumToStr(blockNum)))

\* StreamUpload.generateBlockId(blockNum)
generateBlockId(blockNum) == Base64Encode(Utf8Bytes(zeroPad(blockNum, 5)))

(***************************************************************************)
(* Pieces of StreamUpload.upload                                           *)
(***************************************************************************)
\* Variant: the sequence number computed after chunkCount++
SeqNumAfterIncrement(count, perBlob) == (count + 1) \div perBlob

\* let seqNum = Math.trunc(chunkCount / this.blocksPerBlob)
SeqNum(count, perBlob) == count \div perBlob

\* let blockNum = chunkCount % this.blocksPerBlob
BlockNum(count, perBlob) == count % perBlob

\* Variant: the check lets a second sequence through
SingleBlobExceededLate(single, seqNum) == single /\ seqNum > 1

\* if(this.singleBlob && seqNum > 0)
SingleBlobExceeded(single, seqNum) == single /\ seqNum > 0

\* Variant: the sequences are numbered from 1
SeqIdFromOne(single, seqNum) ==
  IF single THEN <<>> ELSE <<".">> \o zeroPad(seqNum + 1, 3)

\* let seqId = ( this.singleBlob ? '' : '.' + Utils.zeroPad(seqNum, 3) )
SeqId(single, seqNum) == IF single THEN <<>> ELSE <<".">> \o zeroPad(seqNum, 3)

\* get blobUrl(): 'https://' + storageAccountName + '.' + endpoint + blob
blobUrl(o) ==
  <<"h", "t", "t", "p", "s", ":", "/", "/">> \o o.authData.storageAccountName.str
    \o <<".">> \o o.endpoint \o o.blob

\* let seqFull = !(chunkCount % this.blocksPerBlob)
SeqFull(count, perBlob) == (count % perBlob) = 0

\* Variant: the partial last sequence is not counted
SeqCountFullOnly(count, perBlob) == count \div perBlob

\* let seqCount = Math.trunc(chunkCount / this.blocksPerBlob) + (seqFull ? 0 : 1)
SeqCount(count, perBlob) ==
  (count \div perBlob) + (IF SeqFull(count, perBlob) THEN 0 ELSE 1)

\* Variant: every sequence is committed with blocksPerBlob blocks
BlocksInSeqAlwaysFull(i, count, perBlob) == perBlob

\* let blocksInSeq = (i === (seqCount - 1) && !seqFull) ? chunkCount % blocksPerBlob : blocksPerBlob
BlocksInSeq(i, count, perBlob) ==
  IF i = SeqCount(count, perBlob) - 1 /\ ~SeqFull(count, perBlob)
  THEN count % perBlob
  ELSE perBlob

\* Variant: the block ids are generated from 1 to blockCount
BlockListFromOne(blockCount) == [i \in 1..blockCount |-> generateBlockId(i)]

\* commitBlockBlob: the <Latest> entries of the block list, in document order
BlockList(blockCount) == [i \in 1..blockCount |-> generateBlockId(i - 1)]

\* let xmlData = '<?xml version="1.0" encoding="utf-8"?><BlockList>'
XmlOpen ==
  <<"<", "?", "x", "m", "l", " ", "v", "e", "r", "s", "i", "o", "n", "=",
  "\"", "1", ".", "0", "\"", " ", "e", "n", "c", "o", "d", "i", "n", "g",
  "=", "\"", "u", "t", "f", "-", "8", "\"", "?", ">", "<", "B", "l", "o",
  "c", "k", "L", "i", "s", "t", ">">>
\* '<Latest>', '</Latest>' and '</BlockList>'
LatestOpen == <<"<", "L", "a", "t", "e", "s", "t", ">">>
LatestClose == <<"<", "/", "L", "a", "t", "e", "s", "t", ">">>
XmlClose == <<"<", "/", "B", "l", "o", "c", "k", "L", "i", "s", "t", ">">>

RECURSIVE LatestEntries(_)
\* xmlData += '<Latest>' + this.generateBlockId(i) + '</Latest>', for each id
LatestEntries(ids) ==
  IF Len(ids) = 0 THEN <<>>
  ELSE LatestOpen \o ids[1] \o LatestClose \o LatestEntries(Tail(ids))

\* commitBlockBlob: the body of the request, as a string
xmlData(blockCount) == XmlOpen \o LatestEntries(BlockList(blockCount)) \o XmlClose

\* Variant: a later resolve or reject overrides the settled value
SettleLastWins(cur, new) == new

\* A promise settles once: resolve and reject are no-ops on a settled promise
Settle(cur, new) == IF cur.state = "pending" THEN new ELSE cur

NoError == [kind |-> "none", id |-> 0]
SingleBlobError == [kind |-> "singleBlob", id |-> 0]
PutBlockError(i) == [kind |-> "putBlock", id |-> i]
CommitError(i) == [kind |-> "commit", id |-> i]

Pending == [state |-> "pending", count |-> 0, urls |-> <<>>, error |-> NoError]
Resolved(count, urls) ==
  [state |-> "resolved", count |-> count, urls |-> urls, error |-> NoError]
Rejected(err) == [state |-> "rejected", count |-> 0, urls |-> <<>>, error |-> err]

\* Variant: one more chunk than the limit is asked for
AskMoreOffByOne(running, limit) == running <= limit

\* through2-concurrent: the write callback is called right away below the limit
AskMore(running, limit) == running < limit

\* Variant: the flush function does not wait for the running transforms
FinishReadyAlways(running) == TRUE

\* through2-concurrent: final/flush run only when no transform is running
FinishReady(running) == running = 0

\* Variant: the error of a failed commit is swallowed
AllRejectIgnored(r, err) == r

\* Promise.all(requests) rejects with the error of the first request that fails
AllReject(r, err) == Settle(r, Rejected(err))

\* Variant: the URLs are collected in the order the commits complete
GatherUrlsByCompletion(responses, order) ==
  [i \in 1..Len(responses) |-> responses[order[i]]]

\* requests.map((value) => value.blobUrl) over the array of Promise.all
GatherUrls(responses, order) == [i \in 1..Len(responses) |-> responses[i]]

(***************************************************************************)
(* Authorization (lib/Authorization.js): strings and objects               *)
(***************************************************************************)
\* The characters used, in the order of their UTF-16 code units
AsciiOrder ==
  <<"\n","\r"," ","$","%","&","+","-",".","/","0","1","2","3","4","5","6","7","8","9",":",
    "=","?","A","B","C","D","E","F","G","H","I","J","K","L","M","N","O","P",
    "Q","R","S","T","U","V","W","X","Y","Z","_","a","b","c","d","e","f","g","h",
    "i","j","k","l","m","n","o","p","q","r","s","t","u","v","w","x","y",
    "z">>

CharRank(ch) == CHOOSE i \in 1..Len(AsciiOrder) : AsciiOrder[i] = ch

\* String.prototype.toLowerCase, one character
LowerChar(ch) ==
  LET i == CharRank(ch)
      a == CharRank("A")
  IN  IF i >= a /\ i <= a + 25 THEN AsciiOrder[CharRank("a") + (i - a)] ELSE ch

toLowerCase(str) == [i \in 1..Len(str) |-> LowerChar(str[i])]

RECURSIVE StrLess(_, _)
\* a < b as Array.prototype.sort compares strings: by code unit, prefix first
StrLess(a, b) ==
  IF Len(b) = 0 THEN FALSE
  ELSE IF Len(a) = 0 THEN TRUE
  ELSE IF a[1] # b[1] THEN CharRank(a[1]) < CharRank(b[1])
  ELSE StrLess(Tail(a), Tail(b))

\* name.match(/^x-ms-/i)
HasXmsPrefix(name) ==
  Len(name) >= 5 /\ toLowerCase(SubSeq(name, 1, 5)) = <<"x", "-", "m", "s", "-">>

\* str.replace(/(\n|\r)/g, ' ')
ReplaceNewlines(str) ==
  [i \in 1..Len(str) |-> IF str[i] \in {"\n", "\r"} THEN " " ELSE str[i]]

\* An argument or field that may be undefined, null or false instead of a string
Undef == [defined |-> FALSE, str |-> <<>>]
Str(chars) == [defined |-> TRUE, str |-> chars]

\* !x for an optional string: undefined, null, false and '' are falsy
Falsy(x) == ~x.defined \/ Len(x.str) = 0

\* An object as the sequence of its [name, value] properties in insertion order
Keys(obj) == {obj[i].name : i \in 1..Len(obj)}
Get(obj, name) == (CHOOSE i \in 1..Len(obj) : obj[i].name = name)
Lookup(obj, name) == obj[Get(obj, name)].value

\* obj[name] = value: an existing property keeps its place
SetProp(obj, name, value) ==
  IF name \in Keys(obj)
  THEN [obj EXCEPT ![Get(obj, name)].value = value]
  ELSE Append(obj, [name |-> name, value |-> value])

RECURSIVE AssignAll(_, _)
\* _.assign(target, source) and _.merge for flat objects of strings
AssignAll(target, source) ==
  IF Len(source) = 0 THEN target
  ELSE AssignAll(SetProp(target, source[1].name, source[1].value), Tail(source))

RECURSIVE InsertSorted(_, _)
InsertSorted(sorted, prop) ==
  IF Len(sorted) = 0 THEN <<prop>>
  ELSE IF StrLess(prop.name, sorted[1].name) THEN <<prop>> \o sorted
  ELSE <<sorted[1]>> \o InsertSorted(Tail(sorted), prop)

RECURSIVE SortedProps(_)
SortedProps(obj) ==
  IF Len(obj) = 0 THEN <<>>
  ELSE InsertSorted(SortedProps(Tail(obj)), obj[1])

\* Variant: the properties are returned in insertion order
sortObjectUnsorted(obj) == obj

\* Utils.sortObject(obj): Object.keys(obj).sort().reduce(...)
sortObject(obj) == SortedProps(obj)

RECURSIVE Join(_, _)
\* Array.prototype.join
Join(parts, sep) ==
  IF Len(parts) = 0 THEN <<>>
  ELSE IF Len(parts) = 1 THEN parts[1]
  ELSE parts[1] \o sep \o Join(Tail(parts), sep)

\* this._keyType, this._apiVersion
keyType == <<"S", "h", "a", "r", "e", "d", "K", "e", "y", "L", "i", "t", "e">>
apiVersion == <<"2", "0", "1", "6", "-", "0", "5", "-", "3", "1">>

XMsDate == <<"x", "-", "m", "s", "-", "d", "a", "t", "e">>
XMsVersion == <<"x", "-", "m", "s", "-", "v", "e", "r", "s", "i", "o", "n">>

\* A header value: text, and the signature appended to it (none for plain text)
NoSignature == [hmacKey |-> <<>>, base |-> <<>>]
Text(chars) == [text |-> chars, signature |-> NoSignature]

\* crypto.createHmac('sha256', Buffer.from(key, 'base64')).update(base).digest('base64'),
\* as a term over its two inputs
HmacSha256(key, base) == [hmacKey |-> key, base |-> base]

(***************************************************************************)
(* Authorization: the methods, as functions of the object's fields a       *)
(***************************************************************************)
\* new Authorization('PUT', blob, {contentType, contentMD5, qs}) as putBlock builds it
NewAuthorization(contentMD5) ==
  [verb                   |-> <<"PUT">>,
   blob                   |-> <<"/container/file", "?", "comp=block">>,
   contentMD5             |-> contentMD5,
   contentType            |-> Str(<<"application/octet-stream">>),
   qs                     |-> <<[name |-> <<"c", "o", "m", "p">>,
                                 value |-> <<"b", "l", "o", "c", "k">>]>>,
   customHeaders          |-> <<>>,
   date                   |-> <<"Wed, 04 Nov 2026 18:00:00 GMT">>,
   storageAccountName     |-> Undef,
   storageAccountKey      |-> Undef,
   storageAccountSasToken |-> Undef,
   \* Not a field of the object: the last call made on it and its arguments
   last                   |-> [op |-> "constructor", threw |-> FALSE, args |-> <<>>]]

AuthNew == NewAuthorization(Undef)

\* get headers(): _.assign({}, this._customHeaders, builtIn), sorted by key
headers(a) ==
  LET builtIn == << [name |-> XMsDate, value |-> a.date],
                    [name |-> XMsVersion, value |-> apiVersion] >>
      allHeaders == AssignAll(AssignAll(<<>>, a.customHeaders), builtIn)
  IN  sortObject(allHeaders)

\* addCustomHeader(name, value) throws
addCustomHeaderThrows(name, value) ==
  \/ Falsy(name) \/ Len(name.str) < 1
  \/ Falsy(value) \/ Len(value.str) < 1
  \/ ~HasXmsPrefix(name.str)

\* addCustomHeader(name, value): this._customHeaders[name.toLowerCase()] = value
addCustomHeader(a, name, value) ==
  IF addCustomHeaderThrows(name, value)
  THEN [a EXCEPT !.last = [op |-> "addCustomHeader", threw |-> TRUE,
                           args |-> <<name, value>>]]
  ELSE [a EXCEPT !.customHeaders = SetProp(@, toLowerCase(name.str), value.str),
                 !.last = [op |-> "addCustomHeader", threw |-> FALSE,
                           args |-> <<name, value>>]]

\* const hasKey = !!(key && _.isString(key) && key.length > 1)
HasCredential(x) == ~Falsy(x) /\ Len(x.str) > 1

\* setStorageAccount(name, key, sasToken) throws
setStorageAccountThrows(name, key, sasToken) ==
  \/ Falsy(name) \/ Len(name.str) < 1
  \/ (~HasCredential(key) /\ ~HasCredential(sasToken))
  \/ (HasCredential(key) /\ HasCredential(sasToken))

\* if (sasToken.charAt(0) !== '?') sasToken = '?' + sasToken
WithQuestionMark(token) == IF token[1] # "?" THEN <<"?">> \o token ELSE token

\* setStorageAccount(name, key, sasToken)
setStorageAccount(a, name, key, sasToken) ==
  IF setStorageAccountThrows(name, key, sasToken)
  THEN [a EXCEPT !.last = [op |-> "setStorageAccount", threw |-> TRUE,
                           args |-> <<name, key, sasToken>>]]
  ELSE [a EXCEPT
          !.storageAccountName = name,
          !.storageAccountKey = IF HasCredential(key) THEN key ELSE Undef,
          !.storageAccountSasToken =
             IF HasCredential(sasToken)
             THEN Str(WithQuestionMark(sasToken.str))
             ELSE @,
          !.last = [op |-> "setStorageAccount", threw |-> FALSE,
                    args |-> <<name, key, sasToken>>]]

\* What a method call yields: a thrown error, null, or a value
Throws == [kind |-> "throw", text |-> <<>>, signature |-> NoSignature]
Null == [kind |-> "null", text |-> <<>>, signature |-> NoSignature]
Value(text, signature) == [kind |-> "value", text |-> text, signature |-> signature]

\* The string to sign of generateSignature: components.join('\n')
baseString(a) ==
  LET allHeaders == headers(a)
      join == [i \in 1..Len(allHeaders) |->
                 allHeaders[i].name \o <<":">> \o ReplaceNewlines(allHeaders[i].value)]
      resourceString == <<"/">> \o a.storageAccountName.str \o a.blob
      components == << a.verb,
                       IF Falsy(a.contentMD5) THEN <<>> ELSE a.contentMD5.str,
                       IF Falsy(a.contentType) THEN <<>> ELSE a.contentType.str,
                       <<>>,
                       Join(join, <<"\n">>),
                       resourceString >>
  IN  Join(components, <<"\n">>)

\* Variant: null is returned when no storage account is set
generateSignatureNullIfUnset(a) ==
  IF Falsy(a.storageAccountName) THEN Null
  ELSE IF ~Falsy(a.storageAccountSasToken) THEN Null
  ELSE IF Falsy(a.storageAccountKey) THEN Throws
  ELSE Value(<<>>, HmacSha256(a.storageAccountKey.str, baseString(a)))

\* generateSignature()
generateSignature(a) ==
  IF Falsy(a.storageAccountName) THEN Throws
  ELSE IF ~Falsy(a.storageAccountSasToken) THEN Null
  ELSE IF Falsy(a.storageAccountKey) THEN Throws
  ELSE Value(<<>>, HmacSha256(a.storageAccountKey.str, baseString(a)))

\* Variant: the SAS token is not looked at when a key is stored
generateAuthorizationHeaderKeyFirst(a) ==
  IF ~Falsy(a.storageAccountSasToken) /\ Falsy(a.storageAccountKey) THEN Null
  ELSE IF Falsy(a.storageAccountName) \/ Falsy(a.storageAccountKey) THEN Throws
  ELSE Value(keyType \o <<" ">> \o a.storageAccountName.str \o <<":">>,
             HmacSha256(a.storageAccountKey.str, baseString(a)))

\* generateAuthorizationHeader()
generateAuthorizationHeader(a) ==
  IF ~Falsy(a.storageAccountSasToken) THEN Null
  ELSE LET signature == generateSignature(a)
       IN  IF signature.kind = "throw" THEN Throws
           ELSE Value(keyType \o <<" ">> \o a.storageAccountName.str \o <<":">>,
                      signature.signature)

AuthorizationName == <<"A", "u", "t", "h", "o", "r", "i", "z", "a", "t", "i", "o", "n">>
ContentMD5Name == <<"C", "o", "n", "t", "e", "n", "t", "-", "M", "D", "5">>
ContentTypeName == <<"C", "o", "n", "t", "e", "n", "t", "-", "T", "y", "p", "e">>

\* The object of requestHeaders(): _.merge({}, this.headers, merge)
requestHeaderProps(a) ==
  LET authHeader == generateAuthorizationHeader(a)
      sorted == headers(a)
      plain == [i \in 1..Len(sorted) |->
                  [name |-> sorted[i].name, value |-> Text(sorted[i].value)]]
      m1 == IF authHeader.kind = "value"
            THEN <<[name |-> AuthorizationName,
                    value |-> [text |-> authHeader.text,
                               signature |-> authHeader.signature]]>>
            ELSE <<>>
      m2 == IF Falsy(a.contentMD5) THEN m1
            ELSE SetProp(m1, ContentMD5Name, Text(a.contentMD5.str))
      m3 == IF Falsy(a.contentType) THEN m2
            ELSE SetProp(m2, ContentTypeName, Text(a.contentType.str))
  IN  AssignAll(plain, m3)

\* requestHeaders() throws when generateAuthorizationHeader() does
requestHeadersThrows(a) == generateAuthorizationHeader(a).kind = "throw"

\* qs.stringify(obj) for values that need no encoding: name=value&name=value
qsStringify(obj) ==
  Join([i \in 1..Len(obj) |-> obj[i].name \o <<"=">> \o obj[i].value], <<"&">>)

RECURSIVE Split(_, _)
\* String.prototype.split on a one-character separator
Split(str, sep) ==
  IF \E i \in 1..Len(str) : str[i] = sep
  THEN LET i == CHOOSE k \in 1..Len(str) :
                  str[k] = sep /\ \A j \in 1..(k - 1) : str[j] # sep
       IN  <<SubSeq(str, 1, i - 1)>> \o Split(SubSeq(str, i + 1, Len(str)), sep)
  ELSE <<str>>

\* One name=value part of a query string, cut at its first '='
ParsePart(part) ==
  LET pieces == Split(part, "=")
  IN  [name |-> pieces[1], value |-> Join(Tail(pieces), <<"=">>)]

RECURSIVE ParseParts(_)
ParseParts(parts) ==
  IF Len(parts) = 0 THEN <<>>
  ELSE IF Len(parts[1]) = 0 THEN ParseParts(Tail(parts))
  ELSE LET rest == ParseParts(Tail(parts))
           first == ParsePart(parts[1])
       IN  AssignAll(<<first>>, rest)

\* qs.parse(str) for parameters that occur once and need no decoding
qsParse(str) == ParseParts(Split(str, "&"))

ApiVersionName == <<"a", "p", "i", "-", "v", "e", "r", "s", "i", "o", "n">>

\* Variant: the leading '?' of the stored token is not stripped
querystringKeepsQuestionMark(a) ==
  IF ~Falsy(a.storageAccountSasToken)
  THEN LET qsSas == SetProp(qsParse(a.storageAccountSasToken.str),
                            ApiVersionName, apiVersion)
       IN  AssignAll(AssignAll(<<>>, a.qs), qsSas)
  ELSE a.qs

\* querystring()
querystring(a) ==
  IF ~Falsy(a.storageAccountSasToken)
  THEN LET qsSas == SetProp(qsParse(Tail(a.storageAccountSasToken.str)),
                            ApiVersionName, apiVersion)
       IN  AssignAll(AssignAll(<<>>, a.qs), qsSas)
  ELSE a.qs

(***************************************************************************)
(* putBlock and commitBlockBlob: one call of requestretry and its .then    *)
(***************************************************************************)
\* maxAttempts: 3
maxAttempts == 3

\* The two calls followed: one putBlock and one commitBlockBlob
Calls == {"putBlock", "commitBlockBlob"}

\* Status codes a server may answer with, around the limits the code tests
StatusCodes == {199, 200, 299, 300, 301, 404, 500, 599, 600}

\* The outcome of one attempt: a network-level error or a response
NetworkError == [error |-> TRUE, statusCode |-> 0]
Response(code) == [error |-> FALSE, statusCode |-> code]
Outcomes == {NetworkError} \cup {Response(code) : code \in StatusCodes}

\* Variant: client errors are retried as well
requestRetryStrategyFrom400(o) ==
  o.error \/ (o.statusCode >= 400 /\ o.statusCode < 600)

\* StreamUpload.requestRetryStrategy(error, response, body)
requestRetryStrategy(o) ==
  o.error \/ (o.statusCode >= 500 /\ o.statusCode < 600)

\* Variant: one attempt more than maxAttempts is made
AttemptsLeftOffByOne(attempts) == maxAttempts - attempts >= 0

\* requestretry: mustRetry && this.maxAttempts > 0, maxAttempts counted down per attempt
AttemptsLeft(attempts) == maxAttempts - attempts > 0

\* if(response.statusCode && (response.statusCode < 200 || response.statusCode > 300)) throw
StatusThrows(code) == code # 0 /\ (code < 200 \/ code > 300)

\* A call before request(...) is made
CallIdle == [status |-> "idle", attempts |-> 0, history |-> <<>>]
ReqIdle == [c \in Calls |-> CallIdle]

(***************************************************************************)
(* The StreamUpload object: constructor, properties and their setters      *)
(***************************************************************************)
\* StreamUpload.defaultBlockSize, maxBlockSize, maxBlocksPerBlob,
\* defaultConcurrency, defaultEndpoint
defaultBlockSize == 20971520
maxBlockSize == 104857600
maxBlocksPerBlob == 50000
defaultConcurrency == 3
defaultEndpoint == <<"b", "l", "o", "b", ".", "c", "o", "r", "e", ".", "w", "i", "n", "d", "o", "w", "s", ".", "n", "e", "t">>

\* Character classes of the regular expressions
IsDigit(ch) == CharRank(ch) \in CharRank("0")..CharRank("9")
IsLower(ch) == CharRank(ch) \in CharRank("a")..CharRank("z")
IsUpper(ch) == CharRank(ch) \in CharRank("A")..CharRank("Z")
\* \w
IsWord(ch) == IsDigit(ch) \/ IsLower(ch) \/ IsUpper(ch) \/ ch = "_"
\* [A-Za-z0-9+/]
IsBase64(ch) == IsDigit(ch) \/ IsLower(ch) \/ IsUpper(ch) \/ ch \in {"+", "/"}
\* [\w-%:]
IsSasValue(ch) == IsWord(ch) \/ ch \in {"-", "%", ":"}

\* \$root|[a-z0-9](([a-z0-9\-])){1,61}[a-z0-9]
IsContainerName(str) ==
  \/ str = <<"$", "r", "o", "o", "t">>
  \/ /\ Len(str) >= 3
     /\ Len(str) <= 63
     /\ IsLower(str[1]) \/ IsDigit(str[1])
     /\ IsLower(str[Len(str)]) \/ IsDigit(str[Len(str)])
     /\ \A i \in 2..(Len(str) - 1) :
          IsLower(str[i]) \/ IsDigit(str[i]) \/ str[i] = "-"

\* blob.match(/\/(\$root|[a-z0-9](([a-z0-9\-])){1,61}[a-z0-9])\/(.*){1,1024}/):
\* the expression is not anchored, and (.*){1,1024} matches the empty string
MatchesBlob(blob) ==
  \E i, j \in 1..Len(blob) :
    /\ i < j
    /\ blob[i] = "/"
    /\ blob[j] = "/"
    /\ IsContainerName(SubSeq(blob, i + 1, j - 1))

\* storageAccountName.match(/^[a-z0-9]{3,24}$/)
MatchesAccountName(name) ==
  /\ Len(name) >= 3
  /\ Len(name) <= 24
  /\ \A i \in 1..Len(name) : IsLower(name[i]) \/ IsDigit(name[i])

\* storageAccountKey.match(/^(?:[A-Za-z0-9+/]{4})*(?:[A-Za-z0-9+/]{2}==|[A-Za-z0-9+/]{3}=)?$/)
MatchesKey(key) ==
  /\ Len(key) % 4 = 0
  /\ \E pad \in 0..2 :
       /\ pad <= Len(key)
       /\ \A i \in 1..(Len(key) - pad) : IsBase64(key[i])
       /\ \A i \in (Len(key) - pad + 1)..Len(key) : key[i] = "="

\* One parameter of a SAS token: \w+(=[\w-%:]*)?
MatchesSasParam(part) ==
  LET pieces == Split(part, "=")
  IN  /\ Len(pieces) <= 2
      /\ Len(pieces[1]) >= 1
      /\ \A i \in 1..Len(pieces[1]) : IsWord(pieces[1][i])
      /\ Len(pieces) = 2 => \A i \in 1..Len(pieces[2]) : IsSasValue(pieces[2][i])

\* storageAccountSasToken.match(/^(\?|&)?(\w+(=[\w-%:]*)?(&\w+(=[\w-%:]*)?)*)?$/)
MatchesSasToken(token) ==
  LET body == IF Len(token) > 0 /\ token[1] \in {"?", "&"} THEN Tail(token) ELSE token
      parts == Split(body, "&")
  IN  body = <<>> \/ \A i \in 1..Len(parts) : MatchesSasParam(parts[i])

\* authData as passed to the constructor
AuthData(name, key, sasToken) ==
  [storageAccountName |-> name, storageAccountKey |-> key,
   storageAccountSasToken |-> sasToken]

hasValidStorageAccountKey(authData) ==
  ~Falsy(authData.storageAccountKey) /\ MatchesKey(authData.storageAccountKey.str)

hasValidStorageAccountSasToken(authData) ==
  /\ ~Falsy(authData.storageAccountSasToken)
  /\ MatchesSasToken(authData.storageAccountSasToken.str)

\* The constructor throws on the destination
BlobThrows(blob) == Falsy(blob) \/ ~MatchesBlob(blob.str)

\* The constructor throws on the storage account name
AccountNameThrows(authData) ==
  \/ Falsy(authData.storageAccountName)
  \/ ~MatchesAccountName(authData.storageAccountName.str)

\* The constructor throws on the key and the SAS token
CredentialsThrow(authData) ==
  LET hasKey == hasValidStorageAccountKey(authData)
      hasSasToken == hasValidStorageAccountSasToken(authData)
  IN  (~hasKey /\ ~hasSasToken) \/ (hasKey /\ hasSasToken)

constructorThrows(blob, authData) ==
  BlobThrows(blob) \/ AccountNameThrows(authData) \/ CredentialsThrow(authData)

\* No object: the last call of the constructor threw, or none was made
NoObject ==
  [constructed |-> FALSE,
   blob |-> <<>>,
   authData |-> AuthData(Undef, Undef, Undef),
   blockSize |-> 0, blocksPerBlob |-> 0, concurrency |-> 0,
   md5 |-> FALSE, singleBlob |-> FALSE, endpoint |-> <<>>,
   \* Not a field of the object: the last call made and its arguments
   last |-> [op |-> "none", threw |-> FALSE, args |-> <<>>]]

\* new StreamUpload(sourceStream, blob, authData)
NewStreamUpload(blob, authData) ==
  IF constructorThrows(blob, authData)
  THEN [NoObject EXCEPT !.last = [op |-> "constructor", threw |-> TRUE,
                                  args |-> <<blob, authData>>]]
  ELSE [constructed |-> TRUE,
        blob |-> blob.str,
        authData |-> authData,
        blockSize |-> defaultBlockSize,
        blocksPerBlob |-> maxBlocksPerBlob,
        concurrency |-> defaultConcurrency,
        md5 |-> TRUE,
        singleBlob |-> FALSE,
        endpoint |-> defaultEndpoint,
        last |-> [op |-> "constructor", threw |-> FALSE,
                  args |-> <<blob, authData>>]]

\* A value assigned to a property.  A number is hi * 2^16 + lo, so that
\* values of 2^31 and above can be written
Num(hi, lo) == [kind |-> "number", hi |-> hi, lo |-> lo, b |-> FALSE, str |-> <<>>]
Bool(b) == [kind |-> "boolean", hi |-> 0, lo |-> 0, b |-> b, str |-> <<>>]
Chars(str) == [kind |-> "string", hi |-> 0, lo |-> 0, b |-> FALSE, str |-> str]

\* val | 0: ToInt32 of an integer, of a boolean, and of a string that is no
\* number (NaN | 0 = 0)
ToInt32(v) ==
  IF v.kind = "number"
  THEN (((v.hi + 32768) % 65536) - 32768) * 65536 + v.lo
  ELSE IF v.kind = "boolean" THEN (IF v.b THEN 1 ELSE 0)
  ELSE 0

\* !!val
ToBoolean(v) ==
  IF v.kind = "number" THEN v.hi # 0 \/ v.lo # 0
  ELSE IF v.kind = "boolean" THEN v.b
  ELSE Len(v.str) > 0

\* val + ''
StringOf(v) ==
  IF v.kind = "string" THEN v.str
  ELSE IF v.kind = "boolean" THEN (IF v.b THEN <<"t", "r", "u", "e">> ELSE <<"f", "a", "l", "s", "e">>)
  ELSE IF v.hi = 0 THEN NumToStr(v.lo)
  ELSE <<"N", "a", "N">>

Called(op, threw, val) == [op |-> op, threw |-> threw, args |-> <<val>>]

\* set blockSize(val)
setBlockSize(o, val) ==
  LET v == ToInt32(val)
  IN  IF v > maxBlockSize \/ v < 1
      THEN [o EXCEPT !.last = Called("blockSize", TRUE, val)]
      ELSE [o EXCEPT !.blockSize = v, !.last = Called("blockSize", FALSE, val)]

\* set blocksPerBlob(val)
setBlocksPerBlob(o, val) ==
  LET v == ToInt32(val)
  IN  IF v > maxBlocksPerBlob \/ v < 1
      THEN [o EXCEPT !.last = Called("blocksPerBlob", TRUE, val)]
      ELSE [o EXCEPT !.blocksPerBlob = v, !.last = Called("blocksPerBlob", FALSE, val)]

\* set concurrency(val)
setConcurrency(o, val) ==
  LET v == ToInt32(val)
  IN  IF v < 1
      THEN [o EXCEPT !.last = Called("concurrency", TRUE, val)]
      ELSE [o EXCEPT !.concurrency = v, !.last = Called("concurrency", FALSE, val)]

\* set md5(val), set singleBlob(val)
setMd5(o, val) ==
  [o EXCEPT !.md5 = ToBoolean(val), !.last = Called("md5", FALSE, val)]
setSingleBlob(o, val) ==
  [o EXCEPT !.singleBlob = ToBoolean(val), !.last = Called("singleBlob", FALSE, val)]

\* Variant: the empty string is stored
setEndpointUnchecked(o, val) ==
  [o EXCEPT !.endpoint = StringOf(val), !.last = Called("endpoint", FALSE, val)]

\* set endpoint(val)
setEndpoint(o, val) ==
  LET v == StringOf(val)
  IN  IF Len(v) = 0
      THEN [o EXCEPT !.last = Called("endpoint", TRUE, val)]
      ELSE [o EXCEPT !.endpoint = v, !.last = Called("endpoint", FALSE, val)]

\* The object the upload is run on: new StreamUpload(stream, '/container/file',
\* {storageAccountName: 'account', storageAccountKey: 'a2V5'})
UploadObject ==
  NewStreamUpload(Str(<<"/", "c", "o", "n", "t", "a", "i", "n", "e", "r", "/", "f", "i", "l", "e">>),
                  AuthData(Str(<<"a", "c", "c", "o", "u", "n", "t">>), Str(<<"a", "2", "V", "5">>), Undef))

(***************************************************************************)
(* The chunker the source stream is piped through (stream-chunkify)        *)
(***************************************************************************)
\* Variant: the chunker is built with the default block size
ChunkSizeDefault(o) == defaultBlockSize

\* StreamChunkify(this.blockSize): the chunk size is the blockSize property
ChunkSize(o) == o.blockSize

\* The chunker on a source of the bytes input: nothing read, nothing handed on
NewChunker(chunkSize, input) ==
  [chunkSize |-> chunkSize, input |-> input, read |-> 0, buffer |-> <<>>,
   out |-> <<>>, ended |-> FALSE]

\* No source stream is piped
ChunkerIdle == NewChunker(1, <<>>)

RECURSIVE CutChunks(_, _)
\* The full chunks at the head of the buffered bytes
CutChunks(bytes, size) ==
  IF Len(bytes) < size THEN <<>>
  ELSE <<SubSeq(bytes, 1, size)>> \o CutChunks(SubSeq(bytes, size + 1, Len(bytes)), size)

\* The chunker receives the next n bytes of the source: every full chunk is
\* handed on, the rest is kept
ChunkerWrite(c, n) ==
  LET bytes == c.buffer \o SubSeq(c.input, c.read + 1, c.read + n)
      full == CutChunks(bytes, c.chunkSize)
  IN  [c EXCEPT !.read = @ + n,
                !.out = @ \o full,
                !.buffer = SubSeq(bytes, Len(full) * c.chunkSize + 1, Len(bytes))]

\* The source has ended: the bytes kept, if any, are handed on as the last chunk
ChunkerEnd(c) ==
  [c EXCEPT !.out = IF Len(c.buffer) > 0 THEN Append(@, c.buffer) ELSE @,
            !.buffer = <<>>,
            !.ended = TRUE]

(***************************************************************************)
(* putBlock and commitBlockBlob: the request each call builds              *)
(***************************************************************************)
\* A value passed as block: a Buffer of length bytes with the contents data,
\* or a value of another kind
Buffer(length, data) == [kind |-> "buffer", length |-> length, data |-> data]
NotBuffer(kind) == [kind |-> kind, length |-> 0, data |-> <<>>]

\* crypto.createHash('md5').update(block).digest('base64'), as a term over
\* the contents of the block
Md5Base64(block) == <<"md5(">> \o block.data \o <<")">>

\* new Authorization(verb, blob, extra) throws: blob is no string starting with /
AuthorizationThrows(blob) == Len(blob) = 0 \/ blob[1] # "/"

\* Variant: extra.contentMD5 is not stored
AuthorizationWithoutMD5(blob, contentMD5, qs) ==
  [NewAuthorization(Undef) EXCEPT
     !.blob = blob \o <<"?">> \o qsStringify(qs),
     !.qs = qs]

\* new Authorization('PUT', blob, {contentType: 'application/octet-stream',
\* contentMD5: contentMD5, qs: qs})
Authorization(blob, contentMD5, qs) ==
  [NewAuthorization(contentMD5) EXCEPT
     !.blob = blob \o <<"?">> \o qsStringify(qs),
     !.qs = qs]

CompName == <<"c", "o", "m", "p">>
BlockIdName == <<"b", "l", "o", "c", "k", "i", "d">>
CompBlock == <<"b", "l", "o", "c", "k">>
CompBlockList == <<"b", "l", "o", "c", "k", "l", "i", "s", "t">>

\* StreamUpload.blockSize: the class has no static property of that name
StaticBlockSize == [defined |-> FALSE, num |-> 0]

\* block.length > limit: a comparison with undefined is false
Exceeds(length, limit) == limit.defined /\ length > limit.num

\* No call made yet
NoCall ==
  [op |-> "none", block |-> NotBuffer("undefined"), blockId |-> <<>>,
   blockCount |-> 0, seqId |-> <<>>,
   \* "none", or the error thrown before any request was made
   threw |-> "none",
   \* request(...) was called with url, qs, body and headers
   sent |-> FALSE, url |-> <<>>, qs |-> <<>>, body |-> <<>>, headers |-> <<>>,
   \* the Authorization object the call built
   auth |-> AuthNew]

\* putBlock(block, blockId, seqId), up to the call of request(...)
putBlock(o, block, blockId, seqId) ==
  LET this == [NoCall EXCEPT !.op = "putBlock", !.block = block,
                             !.blockId = blockId, !.seqId = seqId]
      md5 == IF o.md5 THEN Str(Md5Base64(block)) ELSE Undef
      new == Authorization(o.blob \o seqId, md5,
                           <<[name |-> CompName, value |-> CompBlock]>>)
      a == setStorageAccount(new, o.authData.storageAccountName,
                             o.authData.storageAccountKey,
                             o.authData.storageAccountSasToken)
      requestQs == SetProp(SetProp(querystring(a), CompName, CompBlock),
                           BlockIdName, blockId)
  IN  IF block.kind # "buffer"
      THEN \* reject(...) with no reject in scope
           [this EXCEPT !.threw = "ReferenceError"]
      ELSE IF Exceeds(block.length, StaticBlockSize)
      THEN [this EXCEPT !.threw = "ReferenceError"]
      ELSE IF AuthorizationThrows(o.blob \o seqId)
      THEN [this EXCEPT !.threw = "Error"]
      ELSE IF a.last.threw \/ requestHeadersThrows(a)
      THEN [this EXCEPT !.threw = "Error", !.auth = a]
      ELSE [this EXCEPT !.sent = TRUE,
                        !.url = blobUrl(o) \o seqId,
                        !.qs = requestQs,
                        !.body = block.data,
                        !.headers = requestHeaderProps(a),
                        !.auth = a]

\* commitBlockBlob(blockCount, seqId), up to the call of request(...)
commitBlockBlob(o, blockCount, seqId) ==
  LET this == [NoCall EXCEPT !.op = "commitBlockBlob", !.blockCount = blockCount,
                             !.seqId = seqId]
      new == Authorization(o.blob \o seqId, Undef,
                           <<[name |-> CompName, value |-> CompBlockList]>>)
      a == setStorageAccount(new, o.authData.storageAccountName,
                             o.authData.storageAccountKey,
                             o.authData.storageAccountSasToken)
  IN  IF AuthorizationThrows(o.blob \o seqId)
      THEN [this EXCEPT !.threw = "Error"]
      ELSE IF a.last.threw \/ requestHeadersThrows(a)
      THEN [this EXCEPT !.threw = "Error", !.auth = a]
      ELSE [this EXCEPT !.sent = TRUE,
                        !.url = blobUrl(o) \o seqId,
                        !.qs = querystring(a),
                        !.body = xmlData(blockCount),
                        !.headers = requestHeaderProps(a),
                        !.auth = a]

(***************************************************************************)
(* State                                                                   *)
(***************************************************************************)
VARIABLES
  blocksPerBlob,   \* this._blocksPerBlob
  concurrency,     \* this._concurrency (maxConcurrency of the transform)
  singleBlob,      \* this._singleBlob
  sourceChunks,    \* number of chunks the chunked source stream holds
  delivered,       \* number of chunks the chunker has handed over so far
  chunkCount,      \* let chunkCount (closure variable of upload())
  concurrent,      \* through2-concurrent: transforms whose callback is due
  lastCallback,    \* through2-concurrent: a write callback is being held
  ended,           \* the source has ended and end() reached the transform
  pendingFinish,   \* through2-concurrent: final/flush wait for concurrent = 0
  puts,            \* block PUT calls issued, in the order of their start
  inflight,        \* indices in puts of the calls that have not settled
  succeeded,       \* indices in puts of the calls that were fulfilled
  failOrder,       \* indices in puts of the calls that were rejected, in order
  promise,         \* the promise of the first step (new Promise(...))
  commitStarted,   \* the second step (.then((chunkCount) => ...)) has run
  commits,         \* commitBlockBlob calls issued, in the order of the loop
  commitPending,   \* indices in commits of the calls that have not settled
  commitResults,   \* per commit, the blobUrl of its response (<<>> if none)
  commitOrder,     \* indices in commits of the fulfilled calls, in order
  result,          \* the promise returned by upload()
  sourceErrored,   \* the source stream has emitted 'error'
  req,             \* per HTTP call of requestretry: status and attempts made
  auth,            \* the fields of one Authorization object
  su,              \* the fields of one StreamUpload object
  idNum,           \* the argument of a call of generateBlockId
  chunker,         \* the chunker between the source and the transform
  call             \* the last putBlock or commitBlockBlob call and its request

vars == <<blocksPerBlob, concurrency, singleBlob, sourceChunks, delivered,
          chunkCount, concurrent, lastCallback, ended, pendingFinish, puts,
          inflight, succeeded, failOrder, promise, commitStarted, commits,
          commitPending, commitResults, commitOrder, result, sourceErrored,
          req, auth, su, idNum, chunker, call>>

config == <<blocksPerBlob, concurrency, singleBlob, sourceChunks>>
\* State of the other objects, which upload() as modelled here does not touch
others == <<req, auth, su, idNum, chunker, call>>
commitVars == <<commitStarted, commits, commitPending, commitResults, commitOrder>>

\* upload() just called: nothing read, nothing sent, both promises pending
UploadStart ==
  /\ delivered = 0
  /\ chunkCount = 0
  /\ concurrent = 0
  /\ lastCallback = FALSE
  /\ ended = FALSE
  /\ pendingFinish = FALSE
  /\ puts = <<>>
  /\ inflight = {}
  /\ succeeded = {}
  /\ failOrder = <<>>
  /\ promise = Pending
  /\ commitStarted = FALSE
  /\ commits = <<>>
  /\ commitPending = {}
  /\ commitResults = <<>>
  /\ commitOrder = <<>>
  /\ result = Pending
  /\ sourceErrored = FALSE

\* No upload is running: the values of the constructor, on an empty stream
IdleUpload ==
  /\ blocksPerBlob = maxBlocksPerBlob
  /\ concurrency = defaultConcurrency
  /\ singleBlob = FALSE
  /\ sourceChunks = 0
  /\ UploadStart

\* A StreamUpload object with the values of the constructor, on an empty stream
DefaultUpload ==
  IdleUpload /\ su = UploadObject /\ idNum = 0 /\ chunker = ChunkerIdle /\ call = NoCall

\* The object after construction and the setters, and upload() just called
Init ==
  /\ blocksPerBlob \in 1..MaxBlocksPerBlob
  /\ concurrency \in 1..MaxConcurrency
  /\ singleBlob \in BOOLEAN
  /\ sourceChunks \in 0..MaxChunks
  /\ UploadStart
  /\ req = ReqIdle
  /\ auth = AuthNew
  /\ su = [UploadObject EXCEPT !.blocksPerBlob = blocksPerBlob,
                               !.concurrency = concurrency,
                               !.singleBlob = singleBlob]
  /\ idNum = 0
  /\ chunker = ChunkerIdle
  /\ call = NoCall

\* Variant: the rejection of the first promise does not reach the caller
ChainDropped(p, r) == r

\* A rejection of the first promise skips both .then steps of the chain
Chain(p, r) == IF p.state = "rejected" THEN Settle(r, p) ELSE r

(***************************************************************************)
(* First step: one block PUT per chunk                                     *)
(***************************************************************************)
\* The transform function is called with the next chunk of the stream
Transform ==
  /\ delivered < sourceChunks
  /\ ~sourceErrored
  /\ ~lastCallback
  /\ LET running == concurrent + 1
         seqNum == SeqNum(chunkCount, blocksPerBlob)
         blockNum == BlockNum(chunkCount, blocksPerBlob)
     IN  /\ delivered' = delivered + 1
         /\ concurrent' = running
         /\ lastCallback' = ~AskMore(running, concurrency)
         /\ chunkCount' = chunkCount + 1
         /\ IF SingleBlobExceeded(singleBlob, seqNum)
            THEN /\ promise' = Settle(promise, Rejected(SingleBlobError))
                 /\ UNCHANGED <<puts, inflight>>
            ELSE /\ puts' = Append(puts, [chunk    |-> delivered,
                                          seqNum   |-> seqNum,
                                          blockNum |-> blockNum,
                                          seqId    |-> SeqId(singleBlob, seqNum),
                                          blockId  |-> generateBlockId(blockNum),
                                          \* putBlock: this.md5 and this.blobUrl + seqId
                                          md5      |-> su.md5,
                                          url      |-> blobUrl(su) \o SeqId(singleBlob, seqNum)])
                 /\ inflight' = inflight \cup {Len(puts) + 1}
                 /\ UNCHANGED promise
         /\ result' = Chain(promise', result)
  /\ UNCHANGED <<others, sourceErrored, config, ended, pendingFinish, succeeded, failOrder, commitVars>>

\* putBlock(...).then(() => callback()): the transform callback of through2-concurrent
PutBlockOk(i) ==
  /\ i \in inflight
  /\ inflight' = inflight \ {i}
  /\ succeeded' = succeeded \cup {i}
  /\ concurrent' = concurrent - 1
  /\ lastCallback' = FALSE
  /\ IF pendingFinish /\ FinishReady(concurrent - 1)
     THEN /\ pendingFinish' = FALSE
          /\ promise' = Settle(promise, Resolved(chunkCount, <<>>))
     ELSE UNCHANGED <<pendingFinish, promise>>
  /\ result' = Chain(promise', result)
  /\ UNCHANGED <<others, sourceErrored, config, delivered, chunkCount, ended, puts, failOrder, commitVars>>

\* putBlock(...).catch((error) => reject(error)): the callback is never called
PutBlockFail(i) ==
  /\ i \in inflight
  /\ inflight' = inflight \ {i}
  /\ failOrder' = Append(failOrder, i)
  /\ promise' = Settle(promise, Rejected(PutBlockError(i)))
  /\ result' = Chain(promise', result)
  /\ UNCHANGED <<others, sourceErrored, config, delivered, chunkCount, concurrent, lastCallback, ended,
                 pendingFinish, puts, succeeded, commitVars>>

\* The source ends: final and the flush function run once nothing is running
StreamEnd ==
  /\ delivered = sourceChunks
  /\ ~sourceErrored
  /\ ~lastCallback
  /\ ~ended
  /\ ended' = TRUE
  /\ IF FinishReady(concurrent)
     THEN /\ promise' = Settle(promise, Resolved(chunkCount, <<>>))
          /\ UNCHANGED pendingFinish
     ELSE /\ pendingFinish' = TRUE
          /\ UNCHANGED promise
  /\ result' = Chain(promise', result)
  /\ UNCHANGED <<others, sourceErrored, config, delivered, chunkCount, concurrent, lastCallback, puts,
                 inflight, succeeded, failOrder, commitVars>>

(***************************************************************************)
(* Second step: one commit per sequence, then the URLs                     *)
(***************************************************************************)
\* .then((chunkCount) => { ... return Promise.all(requests) })
CommitPhase ==
  /\ promise.state = "resolved"
  /\ ~commitStarted
  /\ commitStarted' = TRUE
  /\ LET seqCount == SeqCount(promise.count, blocksPerBlob)
     IN  /\ commits' = [n \in 1..seqCount |->
                          [seq    |-> n - 1,
                           seqId  |-> SeqId(singleBlob, n - 1),
                           \* commitBlockBlob: url: this.blobUrl + seqId
                           url    |-> blobUrl(su) \o SeqId(singleBlob, n - 1),
                           blocks |-> BlockList(BlocksInSeq(n - 1, promise.count,
                                                            blocksPerBlob))]]
         /\ commitPending' = 1..seqCount
         /\ commitResults' = [n \in 1..seqCount |-> <<>>]
         /\ result' = IF seqCount = 0
                      THEN Settle(result, Resolved(promise.count, <<>>))
                      ELSE result
  /\ UNCHANGED <<others, sourceErrored, config, delivered, chunkCount, concurrent, lastCallback, ended,
                 pendingFinish, puts, inflight, succeeded, failOrder, promise,
                 commitOrder>>

\* commitBlockBlob is fulfilled: response.blobUrl = this.blobUrl + seqId
CommitOk(n) ==
  /\ n \in commitPending
  /\ commitPending' = commitPending \ {n}
  /\ commitResults' = [commitResults EXCEPT ![n] = blobUrl(su) \o commits[n].seqId]
  /\ commitOrder' = Append(commitOrder, n)
  /\ result' = IF Len(commitOrder') = Len(commits)
               THEN Settle(result, Resolved(promise.count,
                                            GatherUrls(commitResults', commitOrder')))
               ELSE result
  /\ UNCHANGED <<others, sourceErrored, config, delivered, chunkCount, concurrent, lastCallback, ended,
                 pendingFinish, puts, inflight, succeeded, failOrder, promise,
                 commitStarted, commits>>

\* commitBlockBlob is rejected: Promise.all rejects with the first such error
CommitFail(n) ==
  /\ n \in commitPending
  /\ commitPending' = commitPending \ {n}
  /\ result' = AllReject(result, CommitError(n))
  /\ UNCHANGED <<others, sourceErrored, config, delivered, chunkCount, concurrent, lastCallback, ended,
                 pendingFinish, puts, inflight, succeeded, failOrder, promise,
                 commitStarted, commits, commitResults, commitOrder>>

Next ==
  \/ Transform
  \/ \E i \in inflight : PutBlockOk(i)
  \/ \E i \in inflight : PutBlockFail(i)
  \/ StreamEnd
  \/ CommitPhase
  \/ \E n \in commitPending : CommitOk(n)
  \/ \E n \in commitPending : CommitFail(n)

Spec == Init /\ [][Next]_vars

\* The same, every step that is enabled being taken eventually: each HTTP
\* call gets its answer and the stream delivers what it holds
FairSpec == Spec /\ WF_vars(Next)

(***************************************************************************)
(* upload() on a source stream that fails                                  *)
(***************************************************************************)
\* The source emits 'error': pipe() forwards neither the error nor an end,
\* and upload() registers no 'error' listener
SourceError ==
  /\ ~sourceErrored
  /\ ~ended
  /\ sourceErrored' = TRUE
  /\ UNCHANGED <<others, config, delivered, chunkCount, concurrent, lastCallback,
                 ended, pendingFinish, puts, inflight, succeeded, failOrder,
                 promise, commitVars, result>>

NextSourceError == Next \/ SourceError

SpecSourceError == Init /\ [][NextSourceError]_vars

(***************************************************************************)
(* One putBlock and one commitBlockBlob call, attempt by attempt           *)
(***************************************************************************)
uploadVars == <<config, delivered, chunkCount, concurrent, lastCallback, ended,
                pendingFinish, puts, inflight, succeeded, failOrder, promise,
                commitVars, result, sourceErrored>>

\* request({... maxAttempts: 3, retryStrategy ...}): the first attempt is sent
RequestStart(c) ==
  /\ req[c].status = "idle"
  /\ req' = [req EXCEPT ![c] = [status |-> "waiting", attempts |-> 1,
                                history |-> <<>>]]
  /\ UNCHANGED <<uploadVars, idNum, chunker, call, auth, su>>

\* Variant: all calls draw on one budget of maxAttempts attempts
RequestAttemptDoneSharedBudget(c, o) ==
  /\ req[c].status = "waiting"
  /\ req' = [req EXCEPT
       ![c].history = Append(@, o),
       ![c].status =
          IF /\ requestRetryStrategy(o)
             /\ AttemptsLeft(req["putBlock"].attempts + req["commitBlockBlob"].attempts)
          THEN "delay"
          ELSE IF o.error THEN "rejected"
          ELSE IF StatusThrows(o.statusCode) THEN "rejected"
          ELSE "fulfilled"]
  /\ UNCHANGED <<uploadVars, idNum, chunker, call, auth, su>>

\* An attempt ends with outcome o: retry after a delay, or reply and run .then
RequestAttemptDone(c, o) ==
  /\ req[c].status = "waiting"
  /\ req' = [req EXCEPT
       ![c].history = Append(@, o),
       ![c].status =
          IF requestRetryStrategy(o) /\ AttemptsLeft(req[c].attempts)
          THEN "delay"
          ELSE IF o.error THEN "rejected"
          ELSE IF StatusThrows(o.statusCode) THEN "rejected"
          ELSE "fulfilled"]
  /\ UNCHANGED <<uploadVars, idNum, chunker, call, auth, su>>

\* The retry delay has passed: the next attempt is sent
RequestRetry(c) ==
  /\ req[c].status = "delay"
  /\ req' = [req EXCEPT ![c].status = "waiting", ![c].attempts = @ + 1]
  /\ UNCHANGED <<uploadVars, idNum, chunker, call, auth, su>>

InitRequest == DefaultUpload /\ req = ReqIdle /\ auth = AuthNew

NextRequest ==
  \/ \E c \in Calls : RequestStart(c)
  \/ \E c \in Calls, o \in Outcomes : RequestAttemptDone(c, o)
  \/ \E c \in Calls : RequestRetry(c)

SpecRequest == InitRequest /\ [][NextRequest]_vars

(***************************************************************************)
(* One Authorization object and the calls made on it                       *)
(***************************************************************************)
\* Arguments tried for the name, the key and the SAS token
NameArgs == {Undef, Str(<<>>), Str(<<"a", "c", "c", "t">>)}
KeyArgs == {Undef, Str(<<>>), Str(<<"k">>), Str(<<"a", "2", "V", "5">>)}
SasArgs == {Undef, Str(<<"s">>), Str(<<"s", "v", "=", "1">>),
            Str(<<"?", "s", "v", "=", "2", "&", "s", "r", "=", "b">>)}

\* Arguments tried for the name and the value of a custom header
HeaderArgs ==
  { <<Undef, Str(<<"v">>)>>,
    <<Str(<<"f", "o", "o">>), Str(<<"v">>)>>,
    <<Str(<<"x", "-", "m", "s", "-", "b">>), Undef>>,
    <<Str(<<"x", "-", "m", "s", "-", "b">>), Str(<<"v">>)>>,
    <<Str(<<"x", "-", "m", "s", "-", "b">>), Str(<<"w", "\n", "z">>)>>,
    <<Str(<<"X", "-", "M", "S", "-", "A">>), Str(<<"v">>)>>,
    <<Str(<<"X", "-", "m", "s", "-", "D", "a", "t", "e">>), Str(<<"v">>)>> }

AuthSetStorageAccount(name, key, sasToken) ==
  /\ auth' = setStorageAccount(auth, name, key, sasToken)
  /\ UNCHANGED <<uploadVars, idNum, chunker, call, req, su>>

AuthAddCustomHeader(name, value) ==
  /\ auth' = addCustomHeader(auth, name, value)
  /\ UNCHANGED <<uploadVars, idNum, chunker, call, req, su>>

InitAuth ==
  /\ DefaultUpload
  /\ req = ReqIdle
  /\ auth \in {NewAuthorization(Undef), NewAuthorization(Str(<<"1B2M2Y8AsgTpgAmY7PhCfg==">>))}

NextAuth ==
  \/ \E name \in NameArgs, key \in KeyArgs, sasToken \in SasArgs :
       AuthSetStorageAccount(name, key, sasToken)
  \/ \E header \in HeaderArgs : AuthAddCustomHeader(header[1], header[2])

SpecAuth == InitAuth /\ [][NextAuth]_vars

(***************************************************************************)
(* The StreamUpload constructor, called on any arguments                   *)
(***************************************************************************)
\* Destinations tried
BlobArgs ==
  { Undef, Str(<<>>),
    Str(<<"/", "c", "o", "n", "t", "a", "i", "n", "e", "r", "/", "p", "a", "t", "h", "/", "t", "o", "/", "f", "i", "l", "e">>),
    Str(<<"/", "$", "r", "o", "o", "t", "/", "f", "i", "l", "e">>),
    Str(<<"/", "I", "n", "v", "a", "l", "i", "d", "_", "C", "o", "n", "t", "a", "i", "n", "e", "r", "/", "f", "i", "l", "e">>),
    Str(<<"f", "i", "l", "e">>),
    Str(<<"x", "/", "a", "b", "c", "/", "f", "i", "l", "e">>),
    Str(<<"/", "a", "b", "c", "/">>),
    Str(<<"/", "a", "b", "/", "f">>),
    Str(<<"/", "a", "b", "c", "-", "/", "f">>),
    Str(<<"/", "B", "a", "d", "/", "a", "b", "c", "/", "f">>) }

\* Account names, keys and SAS tokens tried
AccountNameArgs == {Undef, Str(<<>>), Str(<<"a", "c", "c", "o", "u", "n", "t">>), Str(<<"A", "c", "c", "_">>)}
AccountKeyArgs == {Undef, Str(<<"k">>), Str(<<"a", "b", "c">>), Str(<<"a", "2", "V", "5">>), Str(<<"a", "2", "V", "5", "e", "Q", "=", "=">>)}
AccountSasTokenArgs == {Undef, Str(<<"s", "v", "=", "1">>), Str(<<"?", "s", "v", "=", "2", "&", "s", "r", "=", "b">>), Str(<<"a", " ", "b">>)}

\* new StreamUpload(stream, blob, authData), called once: su is the object, if
\* one was made
Construct(blob, authData) ==
  /\ su = NoObject
  /\ su' = NewStreamUpload(blob, authData)
  /\ UNCHANGED <<uploadVars, idNum, chunker, call, req, auth>>

InitConstructor ==
  /\ IdleUpload
  /\ req = ReqIdle
  /\ auth = AuthNew
  /\ su = NoObject
  /\ idNum = 0
  /\ chunker = ChunkerIdle
  /\ call = NoCall

NextConstructor ==
  \E blob \in BlobArgs, name \in AccountNameArgs, key \in AccountKeyArgs,
     sasToken \in AccountSasTokenArgs :
       Construct(blob, AuthData(name, key, sasToken))

SpecConstructor == InitConstructor /\ [][NextConstructor]_vars

(***************************************************************************)
(* One StreamUpload object and the assignments made to its properties      *)
(***************************************************************************)
\* Values assigned to blockSize, blocksPerBlob and concurrency: 10, 0, -10,
\* 1, maxBlockSize, maxBlockSize + 1, 50000, 50001, 2^31, 2^32 + 1,
\* -(2^32) + 1, 'c' and true
NumberArgs ==
  { Num(0, 10), Num(0, 0), Num(-1, 65526), Num(0, 1), Num(1600, 0),
    Num(1600, 1), Num(0, 50000), Num(0, 50001), Num(32768, 0),
    Num(65536, 1), Num(-65536, 1), Chars(<<"c">>), Bool(TRUE) }

\* Values assigned to endpoint, and to md5 and singleBlob
EndpointArgs ==
  { Chars(<<>>), Chars(<<"b", "l", "o", "b", ".", "c", "o", "r", "e", ".", "c", "l", "o", "u", "d", "a", "p", "i", ".", "d", "e">>), Num(0, 0), Bool(FALSE) }
FlagArgs == { Bool(TRUE), Bool(FALSE), Chars(<<"c">>) }

SetBlockSize(val) ==
  /\ su' = setBlockSize(su, val)
  /\ UNCHANGED <<uploadVars, idNum, chunker, call, req, auth>>

SetBlocksPerBlob(val) ==
  /\ su' = setBlocksPerBlob(su, val)
  /\ UNCHANGED <<uploadVars, idNum, chunker, call, req, auth>>

SetConcurrency(val) ==
  /\ su' = setConcurrency(su, val)
  /\ UNCHANGED <<uploadVars, idNum, chunker, call, req, auth>>

SetMd5(val) ==
  /\ su' = setMd5(su, val)
  /\ UNCHANGED <<uploadVars, idNum, chunker, call, req, auth>>

SetSingleBlob(val) ==
  /\ su' = setSingleBlob(su, val)
  /\ UNCHANGED <<uploadVars, idNum, chunker, call, req, auth>>

SetEndpoint(val) ==
  /\ su' = setEndpoint(su, val)
  /\ UNCHANGED <<uploadVars, idNum, chunker, call, req, auth>>

InitSetters == DefaultUpload /\ req = ReqIdle /\ auth = AuthNew

NextSetters ==
  \/ \E val \in NumberArgs : SetBlockSize(val)
  \/ \E val \in NumberArgs : SetBlocksPerBlob(val)
  \/ \E val \in NumberArgs : SetConcurrency(val)
  \/ \E val \in FlagArgs : SetMd5(val)
  \/ \E val \in FlagArgs : SetSingleBlob(val)
  \/ \E val \in EndpointArgs : SetEndpoint(val)

SpecSetters == InitSetters /\ [][NextSetters]_vars

(***************************************************************************)
(* generateBlockId on every block number of a blob                         *)
(***************************************************************************)
\* The block id of the next block number is generated
NextBlockId ==
  /\ idNum < maxBlocksPerBlob - 1
  /\ idNum' = idNum + 1
  /\ UNCHANGED <<uploadVars, req, auth, su, chunker, call>>

\* generateBlockId is called on any block number of a blob
InitBlockId ==
  /\ IdleUpload
  /\ req = ReqIdle
  /\ auth = AuthNew
  /\ su = UploadObject
  /\ chunker = ChunkerIdle
  /\ call = NoCall
  /\ idNum \in 0..(maxBlocksPerBlob - 1)

SpecBlockId == InitBlockId /\ [][NextBlockId]_vars

(***************************************************************************)
(* A source stream of k bytes piped through the chunker                    *)
(***************************************************************************)
\* The source hands over its next n bytes
SourceData(n) ==
  /\ ~chunker.ended
  /\ chunker.read + n <= Len(chunker.input)
  /\ chunker' = ChunkerWrite(chunker, n)
  /\ UNCHANGED <<uploadVars, req, auth, su, idNum, call>>

\* The source ends after its last byte
SourceEnd ==
  /\ ~chunker.ended
  /\ chunker.read = Len(chunker.input)
  /\ chunker' = ChunkerEnd(chunker)
  /\ UNCHANGED <<uploadVars, req, auth, su, idNum, call>>

InitChunker ==
  /\ IdleUpload
  /\ req = ReqIdle
  /\ auth = AuthNew
  /\ idNum = 0
  /\ call = NoCall
  /\ \E b \in 1..MaxBlockSize, k \in 0..MaxBytes :
       /\ su = [UploadObject EXCEPT !.blockSize = b]
       /\ chunker = NewChunker(ChunkSize(su), [i \in 1..k |-> i])

NextChunker ==
  \/ \E n \in 1..MaxPiece : SourceData(n)
  \/ SourceEnd

SpecChunker == InitChunker /\ [][NextChunker]_vars

(***************************************************************************)
(* putBlock and commitBlockBlob called on a constructed object             *)
(***************************************************************************)
\* Destinations and credentials the objects are constructed with
CallBlobArgs ==
  { Str(<<"/", "c", "o", "n", "t", "a", "i", "n", "e", "r", "/", "f", "i", "l", "e">>),
    Str(<<"x", "/", "a", "b", "c", "/", "f">>),
    Str(<<"a", "b", "c">>) }
CallKeyArgs == {Undef, Str(<<"a", "2", "V", "5">>)}
CallSasTokenArgs ==
  { Undef, Str(<<"?">>), Str(<<"a", " ", "b">>),
    Str(<<"?", "s", "v", "=", "2", "&", "s", "r", "=", "b">>),
    Str(<<"s", "v", "=", "1", "&", "c", "o", "m", "p", "=", "l", "i", "s", "t">>) }

\* Blocks, block ids, sequence suffixes and block counts the calls are made with
BlockArgs ==
  { NotBuffer("undefined"), NotBuffer("string"), NotBuffer("object"),
    Buffer(0, <<>>), Buffer(2, <<"h", "i">>), Buffer(2, <<"y", "o">>),
    Buffer(maxBlockSize, <<"m", "a", "x">>),
    Buffer(maxBlockSize + 1, <<"b", "i", "g">>) }
BlockIdArgs == {generateBlockId(0), generateBlockId(7)}
SeqIdArgs == {<<>>, <<".", "0", "0", "1">>}
BlockCountArgs == {0, 1, 2}

CallPutBlock(block, blockId, seqId) ==
  /\ su.constructed
  /\ call' = putBlock(su, block, blockId, seqId)
  /\ UNCHANGED <<uploadVars, req, auth, su, idNum, chunker>>

CallCommitBlockBlob(blockCount, seqId) ==
  /\ su.constructed
  /\ call' = commitBlockBlob(su, blockCount, seqId)
  /\ UNCHANGED <<uploadVars, req, auth, su, idNum, chunker>>

InitCalls ==
  /\ IdleUpload
  /\ req = ReqIdle
  /\ auth = AuthNew
  /\ idNum = 0
  /\ chunker = ChunkerIdle
  /\ call = NoCall
  /\ \E blob \in CallBlobArgs, key \in CallKeyArgs, sasToken \in CallSasTokenArgs,
        md5 \in BOOLEAN :
       /\ su = [NewStreamUpload(blob, AuthData(Str(<<"a", "c", "c", "o", "u", "n", "t">>),
                                               key, sasToken))
                  EXCEPT !.md5 = md5 /\ @]
       /\ su.constructed

NextCalls ==
  \/ \E block \in BlockArgs, blockId \in BlockIdArgs, seqId \in SeqIdArgs :
       CallPutBlock(block, blockId, seqId)
  \/ \E blockCount \in BlockCountArgs, seqId \in SeqIdArgs :
       CallCommitBlockBlob(blockCount, seqId)

SpecCalls == InitCalls /\ [][NextCalls]_vars

(***************************************************************************)
(* Properties assigned while upload() is in progress                       *)
(***************************************************************************)
\* Endpoint assigned during the upload
OtherEndpoint == <<"e", ".", "d", "e">>

\* upload() has been called, its promise is pending, and no property has been
\* assigned since
SetterDue == result.state = "pending" /\ su.last.op = "constructor"

\* streamUpload.blocksPerBlob = val, between two steps of the upload
UploadSetBlocksPerBlob(val) ==
  /\ SetterDue
  /\ su' = setBlocksPerBlob(su, Num(0, val))
  /\ blocksPerBlob' = su'.blocksPerBlob
  /\ UNCHANGED <<req, auth, idNum, chunker, call, concurrency, singleBlob,
                 sourceChunks, delivered, chunkCount, concurrent, lastCallback,
                 ended, pendingFinish, puts, inflight, succeeded, failOrder,
                 promise, commitVars, result, sourceErrored>>

\* streamUpload.singleBlob = val
UploadSetSingleBlob(val) ==
  /\ SetterDue
  /\ su' = setSingleBlob(su, Bool(val))
  /\ singleBlob' = su'.singleBlob
  /\ UNCHANGED <<req, auth, idNum, chunker, call, concurrency, blocksPerBlob,
                 sourceChunks, delivered, chunkCount, concurrent, lastCallback,
                 ended, pendingFinish, puts, inflight, succeeded, failOrder,
                 promise, commitVars, result, sourceErrored>>

\* streamUpload.endpoint = val
UploadSetEndpoint(val) ==
  /\ SetterDue
  /\ su' = setEndpoint(su, Chars(val))
  /\ UNCHANGED <<req, auth, idNum, chunker, call, uploadVars>>

\* streamUpload.md5 = val
UploadSetMd5(val) ==
  /\ SetterDue
  /\ su' = setMd5(su, Bool(val))
  /\ UNCHANGED <<req, auth, idNum, chunker, call, uploadVars>>

NextSetDuringUpload ==
  \/ Next
  \/ \E val \in 1..MaxBlocksPerBlob : UploadSetBlocksPerBlob(val)
  \/ \E val \in BOOLEAN : UploadSetSingleBlob(val)
  \/ UploadSetEndpoint(OtherEndpoint)
  \/ \E val \in BOOLEAN : UploadSetMd5(val)

SpecSetDuringUpload == Init /\ [][NextSetDuringUpload]_vars

(***************************************************************************)
(* One Authorization object: setStorageAccount and the methods that sign   *)
(***************************************************************************)
\* Arguments tried for the name, the key and the SAS token
SignNameArgs == {Undef, Str(<<"a", "c", "c", "t">>)}
SignKeyArgs == {Undef, Str(<<"k">>), Str(<<"a", "2", "V", "5">>)}
SignSasArgs == {Undef, Str(<<"s">>), Str(<<"?", "s", "v", "=", "2", "&", "s", "r", "=", "b">>)}

\* A method that assigns no field was called: it threw or returned
Returned(a, op, outcome) ==
  [a EXCEPT !.last = [op |-> op, threw |-> outcome.kind = "throw", args |-> <<>>]]

\* auth.generateSignature()
AuthGenerateSignature ==
  /\ auth' = Returned(auth, "generateSignature", generateSignature(auth))
  /\ UNCHANGED <<uploadVars, idNum, chunker, call, req, su>>

\* auth.generateAuthorizationHeader()
AuthGenerateAuthorizationHeader ==
  /\ auth' = Returned(auth, "generateAuthorizationHeader",
                      generateAuthorizationHeader(auth))
  /\ UNCHANGED <<uploadVars, idNum, chunker, call, req, su>>

\* auth.requestHeaders()
AuthRequestHeaders ==
  /\ auth' = Returned(auth, "requestHeaders",
                      IF requestHeadersThrows(auth) THEN Throws ELSE Value(<<>>, NoSignature))
  /\ UNCHANGED <<uploadVars, idNum, chunker, call, req, su>>

NextSign ==
  \/ \E name \in SignNameArgs, key \in SignKeyArgs, sasToken \in SignSasArgs :
       AuthSetStorageAccount(name, key, sasToken)
  \/ AuthAddCustomHeader(Str(<<"x", "-", "m", "s", "-", "b">>), Str(<<"v">>))
  \/ AuthGenerateSignature
  \/ AuthGenerateAuthorizationHeader
  \/ AuthRequestHeaders

SpecSign == InitAuth /\ [][NextSign]_vars

(***************************************************************************)
(* Properties                                                              *)
(***************************************************************************)
PutIndex == 1..Len(puts)
CommitIndex == 1..Len(commits)

\* C1: the k-th chunk of the stream (k from 0) is PUT with sequence index
\* floor(k / blocksPerBlob) and block number k mod blocksPerBlob, whatever the
\* order in which the earlier block uploads completed.
C1_BlockIdentityInStreamOrder ==
  \A i \in PutIndex :
    /\ puts[i].blockNum \in 0..(blocksPerBlob - 1)
    /\ puts[i].chunk = puts[i].seqNum * blocksPerBlob + puts[i].blockNum

\* A block of a later sequence was started after a later upload had completed
\* ahead of an earlier one that is still in flight
C1_Witness ==
  \E i, j, k \in PutIndex :
    /\ i < j /\ j < k
    /\ i \in inflight /\ j \in succeeded
    /\ puts[k].seqNum > 0 /\ puts[k].blockNum > 0

\* C2: when upload() resolves, the block ids of the commit of every sequence
\* are exactly the ids of the blocks successfully PUT under the suffix of that
\* sequence, each once; every uploaded block is in a commit and no two chunks
\* were PUT under the same (suffix, block id) pair.
C2_CommitsMatchUploadedBlocks ==
  result.state = "resolved" =>
    /\ \A n \in CommitIndex :
         /\ \A a, b \in 1..Len(commits[n].blocks) :
              a # b => commits[n].blocks[a] # commits[n].blocks[b]
         /\ {commits[n].blocks[a] : a \in 1..Len(commits[n].blocks)}
              = {puts[i].blockId : i \in {j \in succeeded :
                                            puts[j].seqId = commits[n].seqId}}
    /\ \A n, m \in CommitIndex : n # m => commits[n].seqId # commits[m].seqId
    /\ \A i \in PutIndex :
         i \in succeeded /\ \E n \in CommitIndex : commits[n].seqId = puts[i].seqId
    /\ \A i, j \in PutIndex :
         i # j => <<puts[i].seqId, puts[i].blockId>> # <<puts[j].seqId, puts[j].blockId>>

\* upload() resolved after several sequences, the last one partial
C2_Witness ==
  /\ result.state = "resolved"
  /\ Len(commits) >= 2
  /\ Len(commits[Len(commits)].blocks) < blocksPerBlob
  /\ Len(puts) >= 3

\* C3: no commit request is issued before the source is exhausted and every
\* dispatched block upload has completed successfully; the block count handed
\* to the commit phase is the number of chunks read.
C3_CommitAfterAllBlocks ==
  (commitStarted \/ commits # <<>>) =>
    /\ delivered = sourceChunks
    /\ ended
    /\ inflight = {}
    /\ failOrder = <<>>
    /\ succeeded = PutIndex
    /\ promise.state = "resolved"
    /\ promise.count = delivered

\* The commit phase ran after uploads that overlapped in time
C3_Witness ==
  /\ commitStarted
  /\ Len(commits) >= 2
  /\ concurrency >= 2
  /\ Len(puts) >= 3

\* C4: the block uploads started and not yet settled never exceed the
\* concurrency, and a chunk is handed to the upload step only when a slot is
\* free.
C4_BoundedConcurrency ==
  [][ /\ Cardinality(inflight') <= concurrency
      /\ delivered' > delivered => Cardinality(inflight) < concurrency ]_vars

\* The pool is full while the stream still has chunks to deliver
C4_Witness ==
  /\ concurrency >= 2
  /\ Cardinality(inflight) = concurrency
  /\ delivered < sourceChunks

\* C5 as stated: once a block upload has failed, upload() is rejected with the
\* error of the first block upload that failed and no commit is ever issued.
C5_Original ==
  failOrder # <<>> =>
    /\ result.state = "rejected"
    /\ result.error = PutBlockError(failOrder[1])
    /\ ~commitStarted /\ commits = <<>>

\* C5 amended: once a block upload has failed, upload() is rejected and no
\* commit is ever issued; the rejection carries the error of the first block
\* upload that failed, unless the singleBlob size check had rejected the
\* promise before that failure, and then it carries the size error.
C5_RejectedWithFirstError ==
  failOrder # <<>> =>
    /\ result.state = "rejected"
    /\ promise.state = "rejected"
    /\ ~commitStarted /\ commits = <<>>
    /\ \/ result.error = PutBlockError(failOrder[1])
       \/ /\ result.error = SingleBlobError
          /\ singleBlob
          /\ chunkCount > blocksPerBlob
    /\ ~singleBlob => result.error = PutBlockError(failOrder[1])

\* Two block uploads failed and another one completed after the first failure
C5_Witness ==
  /\ Len(failOrder) >= 2
  /\ result.error = PutBlockError(failOrder[1])
  /\ \E i \in succeeded : i > failOrder[1]

\* C6 as stated: after a block upload has failed, no further chunk is read and
\* no new block upload is started.
C6_NoReadAfterFailure ==
  [][ failOrder # <<>> => (delivered' = delivered /\ puts' = puts) ]_vars

\* C7: with singleBlob set and more than blocksPerBlob chunks in the stream,
\* upload() is rejected, no block is PUT for a sequence index above 0, no block
\* upload is started from the first offending chunk on, and no commit is issued.
C7_SingleBlobOverflowFails ==
  (singleBlob /\ sourceChunks > blocksPerBlob) =>
    /\ result.state # "resolved"
    /\ ~commitStarted /\ commits = <<>>
    /\ \A i \in PutIndex : /\ puts[i].seqNum = 0
                           /\ puts[i].seqId = <<>>
                           /\ puts[i].chunk < blocksPerBlob
    /\ chunkCount > blocksPerBlob => result.state = "rejected"
    /\ ~(ENABLED Next) => result.state = "rejected"

\* Chunks were read after the first offending one, and the blocks of the
\* first sequence were uploaded
C7_Witness ==
  /\ singleBlob
  /\ chunkCount > blocksPerBlob + 1
  /\ result.state = "rejected"
  /\ result.error = SingleBlobError
  /\ Cardinality(succeeded) = blocksPerBlob
  /\ blocksPerBlob >= 2

\* ceil(n / p), without the division of the code
CeilDiv(n, p) == CHOOSE q \in 0..n : q * p >= n /\ (q - 1) * p < n

\* C8: for n >= 1 uploaded blocks the commit phase issues one commit for each
\* sequence index 0..ceil(n/p)-1; every sequence but the last has p blocks and
\* the last has n mod p blocks, or p when n mod p = 0.
C8_CommitCounts ==
  (commitStarted /\ promise.count >= 1) =>
    LET n == promise.count
        p == blocksPerBlob
    IN  /\ Len(commits) = CeilDiv(n, p)
        /\ \A j \in CommitIndex :
             /\ commits[j].seq = j - 1
             /\ Len(commits[j].blocks) =
                  IF j < Len(commits) THEN p
                  ELSE IF n % p = 0 THEN p ELSE n % p

\* n = 5 and p = 2: commits of 2, 2 and 1 blocks
C8_Witness ==
  /\ commitStarted
  /\ promise.count = 5 /\ blocksPerBlob = 2
  /\ Len(commits) = 3
  /\ Len(commits[1].blocks) = 2 /\ Len(commits[2].blocks) = 2
  /\ Len(commits[3].blocks) = 1

\* C9 as stated: for a zero-length input upload() issues exactly one commit,
\* for sequence 0 with an empty block list, and resolves with one blob URL.
C9_EmptyInputCommitsOnce ==
  (sourceChunks = 0 /\ commitStarted) =>
    /\ Len(commits) = 1
    /\ commits[1].seq = 0
    /\ commits[1].blocks = <<>>
    /\ result.state = "resolved" => Len(result.urls) = 1

\* C10: when upload() resolves, its value holds one URL per committed
\* sequence, in ascending sequence index, whatever the order in which the
\* commit requests completed.
C10_UrlsInSequenceOrder ==
  result.state = "resolved" =>
    /\ Len(result.urls) = Len(commits)
    /\ \A j \in CommitIndex :
         /\ commits[j].seq = j - 1
         /\ result.urls[j] = blobUrl(su) \o commits[j].seqId

\* upload() resolved although the commits completed in descending order
C10_Witness ==
  /\ result.state = "resolved"
  /\ Len(commits) >= 3
  /\ commitOrder[1] > commitOrder[2]
  /\ commitOrder[2] > commitOrder[3]

\* Commits that were rejected
CommitFailed == CommitIndex \ (commitPending \cup {commitOrder[i] : i \in 1..Len(commitOrder)})

\* C11: if any commit request fails, upload() is rejected with an error and
\* never resolves with a URL list, even when other commits succeeded; a
\* resolved upload() holds the URL of every sequence, never a partial list.
C11_CommitFailureRejects ==
  /\ CommitFailed # {} =>
       /\ result.state = "rejected"
       /\ result.urls = <<>>
       /\ \E n \in CommitFailed : result.error = CommitError(n)
  /\ result.state = "resolved" =>
       /\ CommitFailed = {}
       /\ Len(result.urls) = Len(commits)

\* One commit of three failed and the two others succeeded
C11_Witness ==
  /\ Len(commits) = 3
  /\ Cardinality(CommitFailed) = 1
  /\ Len(commitOrder) = 2
  /\ result.state = "rejected"

\* An attempt that ended with a network-level error or a 5xx response
IsNetworkOr5xx(o) == o.error \/ (o.statusCode \div 100 = 5)

\* Attempt i of call c was followed by another attempt, sent or scheduled
AttemptedAgain(c, i) ==
  \/ i < Len(req[c].history)
  \/ i = Len(req[c].history) /\ req[c].status \in {"delay", "waiting"}

\* C12: a request is attempted again if and only if the previous attempt
\* ended with a network-level error or a 5xx response and attempts remain;
\* 2xx, 3xx and 4xx responses are never retried, and a call answered 404
\* makes exactly one attempt.
C12_RetryOnlyNetworkOr5xx ==
  \A c \in Calls :
    /\ \A i \in 1..Len(req[c].history) :
         AttemptedAgain(c, i) <=> (IsNetworkOr5xx(req[c].history[i]) /\ i < 3)
    /\ req[c].attempts =
         Len(req[c].history) + (IF req[c].status = "waiting" THEN 1 ELSE 0)
    /\ (Len(req[c].history) >= 1 /\ req[c].history[1] = Response(404)) =>
         (req[c].attempts = 1 /\ req[c].status = "rejected")

\* One call was answered 404 and stopped; the other is on its third attempt
\* after a network error and a 500
C12_Witness ==
  /\ req["putBlock"].history = <<Response(404)>>
  /\ req["putBlock"].status = "rejected"
  /\ req["commitBlockBlob"].history = <<NetworkError, Response(500)>>
  /\ req["commitBlockBlob"].status = "waiting"
  /\ req["commitBlockBlob"].attempts = 3

\* C13: a call makes at most 3 attempts; two network errors followed by a
\* success complete the call successfully after exactly 3 attempts; three
\* attempts that all end in a network error or a 5xx response fail the call
\* without a fourth attempt.
C13_AtMostThreeAttempts ==
  \A c \in Calls :
    LET h == req[c].history
    IN  /\ req[c].attempts <= 3
        /\ Len(h) <= 3
        /\ (/\ Len(h) = 3
            /\ h[1] = NetworkError /\ h[2] = NetworkError
            /\ ~h[3].error /\ h[3].statusCode \in 200..299)
           => (req[c].status = "fulfilled" /\ req[c].attempts = 3)
        /\ (Len(h) = 3 /\ \A i \in 1..3 : IsNetworkOr5xx(h[i]))
           => (req[c].status = "rejected" /\ req[c].attempts = 3)

\* One call succeeded at its third attempt, the other failed three times
C13_Witness ==
  /\ req["putBlock"].history = <<NetworkError, NetworkError, Response(200)>>
  /\ req["putBlock"].status = "fulfilled"
  /\ req["commitBlockBlob"].history = <<Response(500), NetworkError, Response(599)>>
  /\ req["commitBlockBlob"].status = "rejected"

\* C14 as stated: a call fails for every final response whose status code is
\* not in 200..299 and succeeds only for a status code in 200..299.
C14_OnlySuccessOn2xx ==
  \A c \in Calls :
    LET h == req[c].history
    IN  (req[c].status \in {"fulfilled", "rejected"} /\ ~h[Len(h)].error) =>
          (req[c].status = "fulfilled" <=> h[Len(h)].statusCode \in 200..299)

\* C15 as stated: if the source stream reports a read error while upload() is
\* running, the promise returned by upload() is rejected (at the latest when
\* nothing is left to happen) and no commit request is issued.
C15_SourceErrorRejects ==
  (sourceErrored /\ ~(ENABLED NextSourceError)) =>
    (result.state = "rejected" /\ commits = <<>>)

\* Nothing is left to happen in upload()
UploadQuiescent == ~(ENABLED Next)

\* Every block upload and every commit that was made succeeded
AllCallsSucceeded == failOrder = <<>> /\ CommitFailed = {}

C17_NeverKeyAndSasToken ==
  ~(~Falsy(auth.storageAccountKey) /\ ~Falsy(auth.storageAccountSasToken))

\* An argument that is a non-empty string
Given(x) == x.defined /\ Len(x.str) > 0

\* C18 as stated: setStorageAccount throws when the name is empty or missing,
\* when neither key nor sasToken is given and when both are given, and
\* succeeds when exactly one of them is a non-empty string.
C18_ThrowsUnlessExactlyOne ==
  auth.last.op = "setStorageAccount" =>
    LET name == auth.last.args[1]
        key == auth.last.args[2]
        sasToken == auth.last.args[3]
    IN  auth.last.threw <=>
          \/ ~Given(name)
          \/ (~Given(key) /\ ~Given(sasToken))
          \/ (Given(key) /\ Given(sasToken))

\* C19: requestHeaders() has no Authorization header whenever a SAS token is
\* stored; whenever only a key is stored it has one, equal to
\* 'SharedKeyLite <accountName>:<signature>' with the value of generateSignature().
C19_AuthorizationHeader ==
  /\ ~Falsy(auth.storageAccountSasToken) =>
       /\ ~requestHeadersThrows(auth)
       /\ AuthorizationName \notin Keys(requestHeaderProps(auth))
  /\ (Falsy(auth.storageAccountSasToken) /\ ~Falsy(auth.storageAccountKey)) =>
       /\ ~requestHeadersThrows(auth)
       /\ generateSignature(auth).kind = "value"
       /\ AuthorizationName \in Keys(requestHeaderProps(auth))
       /\ Lookup(requestHeaderProps(auth), AuthorizationName) =
            [text |-> <<"S", "h", "a", "r", "e", "d", "K", "e", "y", "L", "i", "t", "e", " ">> \o auth.storageAccountName.str \o <<":">>,
             signature |-> generateSignature(auth).signature]

\* Only a key is stored, with custom headers and a Content-MD5 to sign
C19_Witness ==
  /\ Falsy(auth.storageAccountSasToken)
  /\ ~Falsy(auth.storageAccountKey)
  /\ Len(auth.customHeaders) >= 2
  /\ ~Falsy(auth.contentMD5)

\* The same properties, added in another order
Reorderings(obj) ==
  {[i \in 1..Len(obj) |-> obj[f[i]]] : f \in Permutations(1..Len(obj))}

\* The object built afresh from the same inputs, its custom headers added in
\* the order `order`, and given the account name and the shared key only
KeyOnlyObject(a, order) ==
  [a EXCEPT !.customHeaders = order, !.storageAccountSasToken = Undef]

\* C20 as stated: generateSignature() gives the same value on every object
\* with the same verb, resource, Content-MD5, Content-Type, date, custom
\* headers, account name and shared key; it depends on nothing else, neither
\* on the order in which the custom headers were added nor on the calls the
\* object has seen before.
C20_SignatureDeterministic ==
  ~Falsy(auth.storageAccountKey) =>
    \A other \in Reorderings(auth.customHeaders) :
      generateSignature(KeyOnlyObject(auth, other)) = generateSignature(auth)

\* The keys of an object are in strictly increasing order
SortedByKey(obj) ==
  \A i \in 1..(Len(obj) - 1) : StrLess(obj[i].name, obj[i + 1].name)

\* A name argument that does not start with x-ms- in any letter case
LacksXmsPrefix(name) == Falsy(name) \/ ~HasXmsPrefix(name.str)

\* C21: after any sequence of addCustomHeader calls, headers() is sorted by
\* key, every key is lower-case and starts with x-ms-, and x-ms-date and
\* x-ms-version carry the object's own date and the fixed API version, also
\* when a custom header was added under their name in another letter case; a
\* call with a name that lacks the x-ms- prefix throws and adds nothing.
C21_HeadersSortedBuiltInsKept ==
  /\ [](LET h == headers(auth)
        IN  /\ SortedByKey(h)
            /\ \A i \in 1..Len(h) :
                 h[i].name = toLowerCase(h[i].name) /\ HasXmsPrefix(h[i].name)
            /\ XMsDate \in Keys(h) /\ Lookup(h, XMsDate) = auth.date
            /\ XMsVersion \in Keys(h) /\ Lookup(h, XMsVersion) = apiVersion)
  /\ [][(auth'.last.op = "addCustomHeader" /\ LacksXmsPrefix(auth'.last.args[1]))
          => (auth'.last.threw /\ auth'.customHeaders = auth.customHeaders)]_vars

\* A custom header was added under the name of x-ms-date, another one after
\* a header that sorts behind it, and the last call, with name 'foo', threw
C21_Witness ==
  /\ Len(auth.customHeaders) = 3
  /\ auth.customHeaders[1].name = <<"x", "-", "m", "s", "-", "b">>
  /\ auth.customHeaders[2].name = XMsDate
  /\ auth.customHeaders[3].name = <<"x", "-", "m", "s", "-", "a">>
  /\ auth.last.op = "addCustomHeader"
  /\ auth.last.threw
  /\ auth.last.args[1] = Str(<<"f", "o", "o">>)

\* The SAS token as it was passed to the last successful setStorageAccount
\* call in SAS mode, without its question mark
GivenSasToken(a) ==
  LET token == a.last.args[3].str
  IN  IF token[1] = "?" THEN Tail(token) ELSE token

\* The properties of obj whose name is none of names, in the order of obj
Without(obj, names) == SelectSeq(obj, LAMBDA prop : prop.name \notin names)

\* C22: with a SAS token stored, querystring() holds the caller's parameters,
\* 'api-version' with the fixed API version, and the parameters of the token:
\* written back as a query string they are the token given; with only a
\* shared key stored, querystring() is exactly the caller's parameters.
C22_Querystring ==
  LET q == querystring(auth)
  IN  /\ ~Falsy(auth.storageAccountSasToken) =>
           /\ Keys(auth.qs) \subseteq Keys(q)
           /\ \A i \in 1..Len(auth.qs) :
                Lookup(q, auth.qs[i].name) = auth.qs[i].value
           /\ ApiVersionName \in Keys(q)
           /\ Lookup(q, ApiVersionName) = apiVersion
           /\ (auth.last.op = "setStorageAccount" /\ ~auth.last.threw
                 /\ HasCredential(auth.last.args[3])) =>
                qsStringify(Without(q, Keys(auth.qs) \cup {ApiVersionName}))
                  = GivenSasToken(auth)
      /\ (Falsy(auth.storageAccountSasToken) /\ ~Falsy(auth.storageAccountKey)) =>
           /\ q = auth.qs
           /\ ApiVersionName \notin Keys(q)

\* A token of two parameters, given with its question mark, was just stored
C22_Witness ==
  /\ auth.storageAccountSasToken = Str(<<"?", "s", "v", "=", "2", "&", "s", "r", "=", "b">>)
  /\ Falsy(auth.storageAccountKey)
  /\ auth.last.op = "setStorageAccount"
  /\ ~auth.last.threw
  /\ Len(querystring(auth)) = 4

\* The constructor was called with destination blob and threw
ConstructorThrew == su.last.op = "constructor" /\ su.last.threw

\* The destination has the form /<container>/<path>, as the claim states it:
\* it starts with '/', the container runs up to the next '/', and the path
\* has 1 to 1024 characters
WellFormedDestination(blob) ==
  /\ ~Falsy(blob)
  /\ blob.str[1] = "/"
  /\ \E j \in 2..Len(blob.str) :
       /\ blob.str[j] = "/"
       /\ \A k \in 2..(j - 1) : blob.str[k] # "/"
       /\ LET container == SubSeq(blob.str, 2, j - 1)
          IN  \/ container = <<"$", "r", "o", "o", "t">>
              \/ /\ Len(container) \in 3..63
                 /\ \A k \in 1..Len(container) :
                      IsLower(container[k]) \/ IsDigit(container[k])
                        \/ container[k] = "-"
                 /\ container[1] # "-"
                 /\ container[Len(container)] # "-"
       /\ Len(blob.str) - j \in 1..1024

\* C23 as stated: the constructor throws for every destination that is not of
\* the form /<container>/<path>, in particular for every string that does not
\* start with '/'.
C23_InvalidDestinationThrows ==
  (su.last.op = "constructor" /\ ~WellFormedDestination(su.last.args[1]))
    => su.last.threw

\* C24 as stated: the constructor throws when the storage account name is
\* empty or invalid, when neither a key nor a SAS token is supplied and when
\* both are supplied; an object is constructed only when exactly one of them
\* is present.
C24_ExactlyOneCredential ==
  su.last.op = "constructor" =>
    LET authData == su.last.args[2]
        hasKey == ~Falsy(authData.storageAccountKey)
        hasSasToken == ~Falsy(authData.storageAccountSasToken)
    IN  /\ AccountNameThrows(authData) => su.last.threw
        /\ (~hasKey /\ ~hasSasToken) => su.last.threw
        /\ (hasKey /\ hasSasToken) => su.last.threw
        /\ su.constructed =>
             ~Falsy(su.authData.storageAccountKey)
               # ~Falsy(su.authData.storageAccountSasToken)

\* The value assigned is 0, a negative number, or no number at all
ZeroNegativeOrNonNumeric(val) ==
  \/ val.kind = "string"
  \/ val.kind = "number" /\ (val.hi < 0 \/ (val.hi = 0 /\ val.lo = 0))

\* The number assigned is greater than limit
GreaterThan(val, limit) ==
  /\ val.kind = "number"
  /\ \/ val.hi > limit \div 65536
     \/ val.hi = limit \div 65536 /\ val.lo > limit % 65536

\* C25 as stated: blockSize is always in 1..maxBlockSize, blocksPerBlob in
\* 1..50000 and concurrency at least 1; an assignment of 0, of a negative
\* number or of a non-numeric value to one of them throws and leaves the
\* property as it was; the values after construction are 20 MiB, 50000, 3.
C25_SettersKeepRanges ==
  [][/\ su.last.op = "constructor" =>
          /\ su.blockSize = 20 * 1024 * 1024
          /\ su.blocksPerBlob = 50000
          /\ su.concurrency = 3
     /\ su'.blockSize >= 1 /\ su'.blockSize <= maxBlockSize
     /\ su'.blocksPerBlob >= 1 /\ su'.blocksPerBlob <= maxBlocksPerBlob
     /\ su'.concurrency >= 1
     /\ (/\ su'.last.op \in {"blockSize", "blocksPerBlob", "concurrency"}
         /\ ZeroNegativeOrNonNumeric(su'.last.args[1]))
          => /\ su'.last.threw
             /\ su'.blockSize = su.blockSize
             /\ su'.blocksPerBlob = su.blocksPerBlob
             /\ su'.concurrency = su.concurrency]_vars

\* C26 as stated: the assignment of a number greater than maxBlockSize to
\* blockSize, or greater than maxBlocksPerBlob to blocksPerBlob, throws, also
\* when the number is 2^31 or more.
C26_AboveMaximumThrows ==
  /\ (su.last.op = "blockSize" /\ GreaterThan(su.last.args[1], maxBlockSize))
       => su.last.threw
  /\ (su.last.op = "blocksPerBlob" /\ GreaterThan(su.last.args[1], maxBlocksPerBlob))
       => su.last.threw

\* sub occurs in str
Contains(str, sub) ==
  \E i \in 1..(Len(str) - Len(sub) + 1) : SubSeq(str, i, i + Len(sub) - 1) = sub

\* C27: blobUrl is 'https://' + account name + '.' + endpoint + destination;
\* after a successful assignment to endpoint it contains the new endpoint; the
\* assignment of the empty string throws and leaves endpoint and blobUrl as
\* they were, and endpoint is never empty.
C27_BlobUrlFollowsEndpoint ==
  /\ [](/\ Len(su.endpoint) > 0
        /\ blobUrl(su) = <<"h", "t", "t", "p", "s", ":", "/", "/", "a", "c", "c", "o", "u", "n", "t", ".">> \o su.endpoint \o <<"/", "c", "o", "n", "t", "a", "i", "n", "e", "r", "/", "f", "i", "l", "e">>
        /\ (su.last.op = "endpoint" /\ ~su.last.threw) =>
             /\ su.endpoint = StringOf(su.last.args[1])
             /\ Contains(blobUrl(su), StringOf(su.last.args[1])))
  /\ [][(su'.last.op = "endpoint" /\ su'.last.args[1] = Chars(<<>>))
          => /\ su'.last.threw
             /\ su'.endpoint = su.endpoint
             /\ blobUrl(su') = blobUrl(su)]_vars

\* The endpoint was changed, and the empty string was then assigned to it
C27_Witness ==
  /\ su.last = Called("endpoint", TRUE, Chars(<<>>))
  /\ su.endpoint = <<"b", "l", "o", "b", ".", "c", "o", "r", "e", ".", "c", "l", "o", "u", "d", "a", "p", "i", ".", "d", "e">>
  /\ Contains(blobUrl(su), <<"b", "l", "o", "b", ".", "c", "o", "r", "e", ".", "c", "l", "o", "u", "d", "a", "p", "i", ".", "d", "e">>)

\* The characters of a block id back to bytes: the inverse of the base64
\* alphabet, four characters to three bytes, less the padding
Sextet(ch) == CHOOSE v \in 0..63 : Base64Char[v + 1] = ch

RECURSIVE Base64Decode(_)
Base64Decode(chars) ==
  IF Len(chars) = 0 THEN <<>>
  ELSE LET a == Sextet(chars[1])
           b == Sextet(chars[2])
           rest == SubSeq(chars, 5, Len(chars))
       IN  IF chars[3] = "=" THEN <<(a * 4) + (b \div 16)>>
           ELSE LET c == Sextet(chars[3])
                IN  IF chars[4] = "="
                    THEN <<(a * 4) + (b \div 16), ((b % 16) * 16) + (c \div 4)>>
                    ELSE <<(a * 4) + (b \div 16), ((b % 16) * 16) + (c \div 4),
                           ((c % 4) * 64) + Sextet(chars[4])>>
                         \o Base64Decode(rest)

\* The five decimal digits of n, as their character codes
FiveDigits(n) ==
  << 48 + ((n \div 10000) % 10), 48 + ((n \div 1000) % 10),
     48 + ((n \div 100) % 10), 48 + ((n \div 10) % 10), 48 + (n % 10) >>

ExpectedSuffix(s) ==
  IF singleBlob THEN <<>>
  ELSE << ".", DigitChar[((s \div 100) % 10) + 1], DigitChar[((s \div 10) % 10) + 1],
          DigitChar[(s % 10) + 1] >>

\* url: this.blobUrl + seqId, in putBlock and in commitBlockBlob
RequestUrl(seqId) == blobUrl(su) \o seqId

\* C29: every block PUT and every commit PUT of sequence s goes to blobUrl
\* followed by the suffix of s: nothing when singleBlob is set, else '.' and
\* s in three digits; the URL returned for a sequence is the URL its blocks
\* were PUT to, and the URLs of two sequences differ.
C29_SequenceSuffix ==
  /\ \A i \in PutIndex :
       RequestUrl(puts[i].seqId) = blobUrl(su) \o ExpectedSuffix(puts[i].seqNum)
  /\ \A j \in CommitIndex :
       RequestUrl(commits[j].seqId) = blobUrl(su) \o ExpectedSuffix(commits[j].seq)
  /\ result.state = "resolved" =>
       /\ \A j \in CommitIndex, i \in PutIndex :
            puts[i].seqNum = commits[j].seq =>
              result.urls[j] = RequestUrl(puts[i].seqId)
       /\ \A j, k \in CommitIndex : j # k => result.urls[j] # result.urls[k]

\* upload() resolved with the URLs of two sequences, the second one '.001'
C29_Witness ==
  /\ result.state = "resolved"
  /\ ~singleBlob
  /\ Len(result.urls) = 2
  /\ result.urls[2] = blobUrl(su) \o <<".", "0", "0", "1">>
  /\ \E i \in PutIndex : puts[i].seqNum = 1

RECURSIVE Concat(_)
\* The chunks put end to end
Concat(chunks) == IF Len(chunks) = 0 THEN <<>> ELSE chunks[1] \o Concat(Tail(chunks))

\* C30: a source of k bytes piped through the chunker with blockSize b gives
\* ceil(k/b) chunks (none when k = 0), in stream order, each of b bytes but
\* the last, which has k - b*(ceil(k/b) - 1) bytes; the chunks put end to end
\* are the input.
C30_ChunksOfBlockSize ==
  LET k == Len(chunker.input)
      b == su.blockSize
      n == CeilDiv(k, b)
  IN  /\ Concat(chunker.out) \o chunker.buffer = SubSeq(chunker.input, 1, chunker.read)
      /\ chunker.ended =>
           /\ Len(chunker.out) = n
           /\ \A i \in 1..(n - 1) : Len(chunker.out[i]) = b
           /\ n > 0 => Len(chunker.out[n]) = k - b * (n - 1)
           /\ Concat(chunker.out) = chunker.input

\* Seven bytes in blocks of three: two full chunks and a last chunk of one byte
C30_Witness ==
  /\ chunker.ended
  /\ su.blockSize = 3
  /\ chunker.input = <<1, 2, 3, 4, 5, 6, 7>>
  /\ chunker.out = << <<1, 2, 3>>, <<4, 5, 6>>, <<7>> >>

\* str begins with pre
StartsWith(str, pre) == Len(str) >= Len(pre) /\ SubSeq(str, 1, Len(pre)) = pre

\* str without its first n characters
Drop(str, n) == SubSeq(str, n + 1, Len(str))

\* The position of the first ch in str, or Len(str) + 1 if there is none
IndexOf(str, ch) ==
  IF \E i \in 1..Len(str) : str[i] = ch
  THEN CHOOSE i \in 1..Len(str) : str[i] = ch /\ \A j \in 1..(i - 1) : str[j] # ch
  ELSE Len(str) + 1

\* What a reader of the document finds where an element is not well formed
Malformed == [tag |-> <<>>, id |-> <<>>]

RECURSIVE ReadElements(_)
\* The child elements <tag>id</tag> of a document body that ends with
\* </BlockList>, in document order
ReadElements(str) ==
  IF str = XmlClose THEN <<>>
  ELSE IF ~StartsWith(str, <<"<">>) THEN <<Malformed>>
  ELSE LET gt == IndexOf(str, ">")
           tag == SubSeq(str, 2, gt - 1)
           after == Drop(str, gt)
           lt == IndexOf(after, "<")
           id == SubSeq(after, 1, lt - 1)
           close == <<"<", "/">> \o tag \o <<">">>
           rest == Drop(after, lt - 1)
       IN  IF gt > Len(str) \/ Len(tag) = 0 \/ tag[1] = "/" \/ ~StartsWith(rest, close)
           THEN <<Malformed>>
           ELSE <<[tag |-> tag, id |-> id]>> \o ReadElements(Drop(rest, Len(close)))

\* The entries of the block list a service reads from a request body
ReadBlockList(body) ==
  IF StartsWith(body, XmlOpen) THEN ReadElements(Drop(body, Len(XmlOpen)))
  ELSE <<Malformed>>

\* blockCount as upload() passes it to the commit of sequence commits[j].seq
BlockCountOf(j) == BlocksInSeq(commits[j].seq, promise.count, blocksPerBlob)

\* C31: the body commitBlockBlob(blockCount, seqId) sends is a block list of
\* exactly blockCount entries, each a Latest entry, entry i (from 0) holding
\* the id of block number i, the base64 of i in five digits, none repeated.
C31_BlockListEntries ==
  \A j \in CommitIndex :
    LET list == ReadBlockList(xmlData(BlockCountOf(j)))
    IN  /\ Len(list) = BlockCountOf(j)
        /\ \A i \in 1..Len(list) :
             /\ list[i].tag = <<"L", "a", "t", "e", "s", "t">>
             /\ list[i].id = generateBlockId(i - 1)
             /\ Base64Decode(list[i].id) = FiveDigits(i - 1)
        /\ \A a, b \in 1..Len(list) : a # b => list[a].id # list[b].id

\* A commit of three blocks: the ids of 0, 1 and 2 in that order
C31_Witness ==
  \E j \in CommitIndex :
    /\ BlockCountOf(j) = 3
    /\ ReadBlockList(xmlData(3)) =
         << [tag |-> <<"L", "a", "t", "e", "s", "t">>,
             id |-> <<"M", "D", "A", "w", "M", "D", "A", "=">>],
            [tag |-> <<"L", "a", "t", "e", "s", "t">>,
             id |-> <<"M", "D", "A", "w", "M", "D", "E", "=">>],
            [tag |-> <<"L", "a", "t", "e", "s", "t">>,
             id |-> <<"M", "D", "A", "w", "M", "D", "I", "=">>] >>

\* A block is within the cap when it is a Buffer of at most maxBlockSize bytes
ValidBlock(block) == block.kind = "buffer" /\ block.length <= maxBlockSize

\* C32 as stated: a putBlock call with a block that is no Buffer, or with a
\* Buffer longer than the block size cap, makes no request and ends with an
\* error.
C32_InvalidBlockNotSent ==
  (call.op = "putBlock" /\ ~ValidBlock(call.block)) =>
     (~call.sent /\ call.threw # "none")

\* C33 as stated: on an object the StreamUpload constructor has accepted, no
\* putBlock of a valid block and no commitBlockBlob is stopped by an error of
\* the Authorization constructor or of setStorageAccount.
C33_AcceptedArgumentsNeverThrow ==
  (su.constructed /\ call.op # "none" /\ (call.op = "putBlock" => ValidBlock(call.block))) =>
     (call.threw = "none" /\ call.sent)

\* The base URL a request was sent to: its URL without the sequence suffix
BaseUrl(r) == SubSeq(r.url, 1, Len(r.url) - Len(r.seqId))

\* C34 as stated: all block and commit requests of one upload use one base
\* URL, one value of md5, one value of singleBlob and one value of
\* blocksPerBlob, so that the sequences committed are those the blocks were
\* assigned to, whatever properties are assigned while the upload runs.
C34_SettersDoNotAffectUpload ==
  /\ \A i, k \in PutIndex :
       BaseUrl(puts[i]) = BaseUrl(puts[k]) /\ puts[i].md5 = puts[k].md5
  /\ \A i \in PutIndex, j \in CommitIndex : BaseUrl(puts[i]) = BaseUrl(commits[j])
  /\ \E b \in 1..MaxBlocksPerBlob, single \in BOOLEAN :
       /\ \A i \in PutIndex :
            /\ puts[i].seqNum = SeqNum(puts[i].chunk, b)
            /\ puts[i].blockNum = BlockNum(puts[i].chunk, b)
            /\ puts[i].seqId = SeqId(single, puts[i].seqNum)
       /\ commitStarted =>
            /\ Len(commits) = SeqCount(promise.count, b)
            /\ \A j \in CommitIndex :
                 /\ Len(commits[j].blocks) = BlocksInSeq(j - 1, promise.count, b)
                 /\ commits[j].seqId = SeqId(single, j - 1)

\* C35: the retry budget is per call.  A step of one call leaves the attempts,
\* the history and the state of every other call as they are, and when an
\* attempt of a call ends, the call is attempted again exactly if that attempt
\* ended with a network error or a 5xx response and the call itself has made
\* fewer than 3 attempts, whatever the other calls have used.
C35_RetryBudgetPerCall ==
  [][\A c \in Calls :
       req'[c] # req[c] =>
         /\ \A d \in Calls \ {c} : req'[d] = req[d]
         /\ req'[c].attempts <= maxAttempts
         /\ (req[c].status = "waiting" /\ req'[c].status # "waiting") =>
              LET h == req'[c].history
              IN  (req'[c].status = "delay") <=>
                    (IsNetworkOr5xx(h[Len(h)]) /\ Len(h) < maxAttempts)]_vars

\* Both calls are in flight on their third attempt: six attempts in all
C35_Witness ==
  /\ req["putBlock"].status = "waiting"
  /\ req["putBlock"].attempts = 3
  /\ req["commitBlockBlob"].status = "waiting"
  /\ req["commitBlockBlob"].attempts = 3

\* The MD5 digest, in base64, of the bytes a request was sent with
DigestOfBody(r) == Md5Base64([r.block EXCEPT !.data = r.body])

\* The Content-MD5 component of the string signed for a request: its second line
SignedContentMD5(r) ==
  Split(Lookup(r.headers, AuthorizationName).signature.base, "\n")[2]

\* C36: a block PUT carries a Content-MD5 header exactly if the md5 option is
\* enabled; its value is then the MD5 digest of the bytes sent as the body of
\* that request, and with a shared key the same value is the Content-MD5
\* line of the signed string (an empty line when md5 is disabled).
C36_ContentMD5OfBody ==
  (call.op = "putBlock" /\ call.sent) =>
    /\ (ContentMD5Name \in Keys(call.headers)) <=> su.md5
    /\ su.md5 => Lookup(call.headers, ContentMD5Name) = Text(DigestOfBody(call))
    /\ AuthorizationName \in Keys(call.headers) =>
         SignedContentMD5(call) = IF su.md5 THEN DigestOfBody(call) ELSE <<>>

\* A block of two bytes sent with a shared key and its digest
C36_Witness ==
  /\ call.op = "putBlock"
  /\ call.sent
  /\ su.md5
  /\ call.body = <<"h", "i">>
  /\ AuthorizationName \in Keys(call.headers)
  /\ Lookup(call.headers, ContentMD5Name) = Text(<<"md5(", "h", "i", ")">>)
  /\ SignedContentMD5(call) = <<"md5(", "h", "i", ")">>

\* C37 as stated: every block PUT carries comp=block and blockid=<the id of
\* the block>, and every commit PUT carries comp=blocklist, with a shared key
\* and with a SAS token alike, whatever parameters the token holds.
C37_CompAndBlockId ==
  /\ (call.op = "putBlock" /\ call.sent) =>
       /\ CompName \in Keys(call.qs) /\ Lookup(call.qs, CompName) = CompBlock
       /\ BlockIdName \in Keys(call.qs) /\ Lookup(call.qs, BlockIdName) = call.blockId
  /\ (call.op = "commitBlockBlob" /\ call.sent) =>
       CompName \in Keys(call.qs) /\ Lookup(call.qs, CompName) = CompBlockList

\* generateSignature(), generateAuthorizationHeader() and requestHeaders()
\* would each throw on the object
SigningThrows(a) ==
  /\ generateSignature(a).kind = "throw"
  /\ generateAuthorizationHeader(a).kind = "throw"
  /\ requestHeadersThrows(a)

\* The fields of the object, without the record of the last call
Fields(a) == [a EXCEPT !.last = [op |-> "none", threw |-> FALSE, args |-> <<>>]]

SigningOps == {"generateSignature", "generateAuthorizationHeader", "requestHeaders"}

\* C38: on a new Authorization object the three signing methods throw, and
\* they keep throwing after every step that is not a successful
\* setStorageAccount call; a call of one of them on such an object throws and
\* leaves every field of the object as it was.
C38_UnconfiguredSigningThrows ==
  /\ SigningThrows(auth)
  /\ [][(SigningThrows(auth)
          /\ ~(auth'.last.op = "setStorageAccount" /\ ~auth'.last.threw)) =>
         /\ SigningThrows(auth')
         /\ auth'.last.op \in SigningOps =>
              (auth'.last.threw /\ Fields(auth') = Fields(auth))]_vars

\* requestHeaders() was called after a failed setStorageAccount and a custom
\* header, and threw
C38_Witness ==
  /\ auth.last.op = "requestHeaders"
  /\ auth.last.threw
  /\ Falsy(auth.storageAccountName)
  /\ Len(auth.customHeaders) = 1

\* The last call was a successful setStorageAccount with a key, with a token
LastSetWithKey(a) ==
  a.last.op = "setStorageAccount" /\ ~a.last.threw /\ HasCredential(a.last.args[2])
LastSetWithSasToken(a) ==
  a.last.op = "setStorageAccount" /\ ~a.last.threw /\ HasCredential(a.last.args[3])

\* C39 as stated: right after a successful setStorageAccount call with a key,
\* generateAuthorizationHeader() returns a SharedKeyLite value signed with
\* that key and querystring() holds no parameter of a SAS token; right after
\* a successful call with a SAS token, generateAuthorizationHeader() returns
\* null and querystring() holds the parameters of that token; whatever calls
\* came before.
C39_LastCredentialsInEffect ==
  /\ LastSetWithKey(auth) =>
       /\ generateAuthorizationHeader(auth).kind = "value"
       /\ generateAuthorizationHeader(auth).signature.hmacKey = auth.last.args[2].str
       /\ querystring(auth) = auth.qs
  /\ LastSetWithSasToken(auth) =>
       /\ generateAuthorizationHeader(auth).kind = "null"
       /\ qsStringify(Without(querystring(auth), Keys(auth.qs) \cup {ApiVersionName}))
            = GivenSasToken(auth)

====
